---- MODULE Spec2Model ----
(***************************************************************************)
(* Model of go-otel-agent: the Agent lifecycle (Init / Shutdown and the    *)
(* GetTracer / GetMeter accessors) and the helper package's instrument     *)
(* caches (RecordDuration / IncrementCounter / SetGauge).                  *)
(*                                                                         *)
(* Init and Shutdown hold Agent.mu for their whole body, so each is a      *)
(* sequence of steps of the one goroutine that holds the mutex.  The       *)
(* accessors take no lock and interleave with those steps.                 *)
(***************************************************************************)
EXTENDS Integers, Sequences, FiniteSets, TLC

\* ------------------------------------------------------------------ bounds
\* Number of Agent.Init calls made on the agent.
MaxInits == 2
\* Number of Agent.Shutdown calls made on the agent.
MaxShutdowns == 2
\* Number of goroutines calling the helper metric functions, one call each.
NumThreads == 2

\* ------------------------------------------------------------ vocabulary
Signals == {"traces", "metrics", "logs"}
\* Init and Shutdown walk the signals in this order.
SigOrder == <<"traces", "metrics", "logs">>

\* Names passed to GetTracer / GetMeter by application code; "runtime" is also
\* one of the meters the agent itself obtains for its collectors.
TracerNames == {"app"}
MeterNames == {"app", "runtime"}
\* Meters that initCollectors obtains through GetMeter.
CollectorMeters == {"runtime", "business", "performance", "system"}
\* Component given in MetricOptions ("" when opts is nil or names none) and
\* instrument names given to the helper metric functions.
CompInputs == {""}
InstrNames == {"requests"}
\* The helper's three caches: RecordDuration, IncrementCounter, SetGauge.
Kinds == {"histogram", "counter", "gauge"}
Threads == 1..NumThreads
\* ginmiddleware's instrumentation scope (the name is shortened).
scopeName == "ginmiddleware"
AllNames == TracerNames \cup MeterNames \cup CollectorMeters \cup {"default", scopeName}

\* A provider pointer: Nil, or the number of the Init call that built it.
Nil == 0

\* Tracer / meter handles.  kind "nil" is a nil interface value, "noop" the
\* no-op implementation, "real" a handle minted by an SDK provider; serial
\* tells apart the handles that one provider minted for one name.
Handle(k, p, n) == [kind |-> k, prov |-> p, serial |-> n]
NoHandle == Handle("none", 0, 0)
NilHandle == Handle("nil", 0, 0)
NoopHandle == Handle("noop", 0, 0)

VARIABLES
    config,          \* Agent.config: Enabled, ServiceName, per-signal flags
    mu,              \* Agent.mu: "free", or the call that holds it
    initialized,     \* Agent.initialized
    running,         \* Agent.running
    provider,        \* Agent.tracerProvider / meterProvider / loggerProvider
    globalProvider,  \* otel / logglobal process-wide providers
    helperGlobal,    \* helper.globalProvider is the agent
    tracers,         \* Agent.tracers (sync.Map)
    meters,          \* Agent.meters (sync.Map)
    collector,       \* Agent.collector and its MetricCollector fields
    initPc,          \* position of the goroutine inside Init
    sdPc,            \* position of the goroutine inside Shutdown
    sdBlocked,       \* Shutdown is inside a teardown call that never returns
    initCalls,       \* Init calls started so far
    shutdownCalls,   \* Shutdown calls started so far
    initResult,      \* what the last Init call returned
    sdResult,        \* what the last Shutdown call returned and did
    lastHandle,      \* the last accessor call and the kind of handle it returned
    returned,        \* handles the accessors returned once Init had succeeded
    minted,          \* provider.Tracer(name) / Meter(name) invocations
    teardowns,       \* provider.Shutdown invocations per signal
    collectorStops,  \* times MetricCollector.Stop closed the stop channel
    panicked,        \* a nil handle was used
    sideEffect,      \* telemetry was recorded through a real handle
    hpc,             \* helper goroutines: position and locals
    icache,          \* helper.histogramCache / counterCache / gaugeCache
    created,         \* instruments created per cache and key
    recorded,        \* handles each key was recorded on
    lazyUsed,        \* gormplugin: the provider each lazyTracer.Start call delegated to
    initOnce,        \* ginmiddleware: the sync.Once of one handler
    gpc,             \* ginmiddleware: position of each request goroutine
    ginState,        \* ginmiddleware: the variables the handler closes over
    setupCount,      \* ginmiddleware: times the one-time setup ran
    usedUnbuilt,     \* ginmiddleware: a request used the tracer before setup ended
    consecutiveFailures,  \* ExporterHealth.consecutiveFailures
    failuresSince,   \* RecordFailure calls per signal since its last RecordSuccess
    lastEvent,       \* the last Record call made on each signal
    lastProbe,       \* what the last health / readiness probe returned
    flushResult,     \* what the last ForceFlush call returned and flushed
    routeMatcher,    \* a RouteMatcher (or nil)
    requestPath,     \* the path given to ShouldExclude
    excluded,        \* what ShouldExclude returned
    httpScrubber,    \* an HTTPScrubber
    scrubCall,       \* the HTTPScrubber method called and its arguments
    scrubResult,     \* what that call returned
    scrubProcessor,  \* a ScrubProcessor
    span,            \* the attributes of a span given to ScrubProcessor.OnStart
    tasks,           \* MetricCollector: the Collect goroutine of each sub-collector
    ctxDone,         \* MetricCollector: the context given to Start is cancelled
    ticks,           \* MetricCollector: ticker firings served by the Collect loops
    rw,              \* ExporterHealth.mu: readers, writer, goroutines waiting in Lock
    hthread,         \* ExporterHealth: the call each goroutine is in and its locals
    linear,          \* ExporterHealth: the counters of a tracker that runs each call in one step
    calls,           \* ExporterHealth: calls started so far
    healthCall       \* Agent.HealthCheck: where a call is, what it read, what it returned

agentVars == <<config, mu, initialized, running, provider, globalProvider,
               helperGlobal, tracers, meters, collector, initPc, sdPc, sdBlocked>>
obsVars == <<initCalls, shutdownCalls, initResult, sdResult, lastHandle, returned, minted,
             teardowns, collectorStops, panicked, sideEffect>>
helperVars == <<hpc, icache, created, recorded>>
libVars == <<lazyUsed, initOnce, gpc, ginState, setupCount, usedUnbuilt,
             consecutiveFailures, failuresSince, lastEvent, lastProbe, flushResult, healthCall,
             routeMatcher, requestPath, excluded,
             httpScrubber, scrubCall, scrubResult, scrubProcessor, span,
             tasks, ctxDone, ticks, rw, hthread, linear, calls>>
vars == <<agentVars, obsVars, helperVars, libVars>>

\* Groups of the library variables, by the component that owns them.
lazyVars == <<lazyUsed>>
ginVars == <<initOnce, gpc, ginState, setupCount, usedUnbuilt>>
healthVars == <<consecutiveFailures, failuresSince, lastEvent>>
probeVars == <<lastProbe, flushResult, healthCall>>
matcherVars == <<routeMatcher, requestPath, excluded>>
scrubVars == <<httpScrubber, scrubCall, scrubResult, scrubProcessor, span>>
taskVars == <<tasks, ctxDone, ticks>>
rwVars == <<rw, hthread, linear, calls>>

tracerProvider == provider["traces"]
meterProvider == provider["metrics"]
loggerProvider == provider["logs"]

\* ------------------------------------------------------- accessors (Agent)
\* What the SDK provider of signal sig mints for name: a new object per call.
NewHandle(sig, name) == Handle("real", provider[sig], minted[sig][name] + 1)

\* GetTracer without the tracers.Store: every call asks the provider again.
GetTracerNoStore(name) ==
    IF tracerProvider = Nil
    THEN [h |-> NoopHandle, cache |-> tracers, mint |-> FALSE]
    ELSE [h |-> NewHandle("traces", name), cache |-> tracers, mint |-> TRUE]

\* Agent.GetTracer: the returned tracer, the tracers map after the call, and
\* whether tracerProvider.Tracer(name) was invoked.
GetTracer(name) ==
    IF tracerProvider = Nil
    THEN [h |-> NoopHandle, cache |-> tracers, mint |-> FALSE]
    ELSE IF tracers[name] # NoHandle
    THEN [h |-> tracers[name], cache |-> tracers, mint |-> FALSE]
    ELSE [h |-> NewHandle("traces", name),
          cache |-> [tracers EXCEPT ![name] = NewHandle("traces", name)],
          mint |-> TRUE]

\* GetMeter as it was before the fix noted at its head: nil when there is no
\* meter provider.
GetMeterNilWithoutProvider(name) ==
    IF meterProvider = Nil
    THEN [h |-> NilHandle, cache |-> meters, mint |-> FALSE]
    ELSE IF meters[name] # NoHandle
    THEN [h |-> meters[name], cache |-> meters, mint |-> FALSE]
    ELSE [h |-> NewHandle("metrics", name),
          cache |-> [meters EXCEPT ![name] = NewHandle("metrics", name)],
          mint |-> TRUE]

\* Agent.GetMeter: as GetTracer, on meterProvider and the meters map.
GetMeter(name) ==
    IF meterProvider = Nil
    THEN [h |-> NoopHandle, cache |-> meters, mint |-> FALSE]
    ELSE IF meters[name] # NoHandle
    THEN [h |-> meters[name], cache |-> meters, mint |-> FALSE]
    ELSE [h |-> NewHandle("metrics", name),
          cache |-> [meters EXCEPT ![name] = NewHandle("metrics", name)],
          mint |-> TRUE]

\* Whether Init has succeeded with signal sig enabled, so that the accessor
\* of sig serves real handles.
Serving(sig) == initialized /\ config.Enabled /\ config.Signal[sig]

\* The handles recorded as returned after a call op(n) that returned h.
Returned(op, sig, n, h) ==
    IF Serving(sig) THEN [returned EXCEPT ![op][n] = @ \cup {h}] ELSE returned

\* Agent.IsEnabled
IsEnabled == config.Enabled

\* The meters map and the mint counters after GetMeter on each name of S
\* (the names are distinct, so the calls do not affect one another).
MetersAfter(S) == [n \in AllNames |-> IF n \in S THEN GetMeter(n).cache[n] ELSE meters[n]]
MintedAfter(S) ==
    [minted EXCEPT !["metrics"] =
        [n \in AllNames |-> IF n \in S /\ GetMeter(n).mint THEN @[n] + 1 ELSE @[n]]]

\* Application code calls GetTracer(name) and starts a span on what it got:
\* a nil interface panics, the no-op does nothing, a real tracer records.
CallGetTracer(n) ==
    /\ tracers' = GetTracer(n).cache
    /\ minted' = IF GetTracer(n).mint THEN [minted EXCEPT !["traces"][n] = @ + 1] ELSE minted
    /\ lastHandle' = [op |-> "GetTracer", kind |-> GetTracer(n).h.kind]
    /\ returned' = Returned("GetTracer", "traces", n, GetTracer(n).h)
    /\ panicked' = (panicked \/ GetTracer(n).h.kind = "nil")
    /\ sideEffect' = (sideEffect \/ GetTracer(n).h.kind = "real")
    /\ UNCHANGED <<config, mu, initialized, running, provider, globalProvider, helperGlobal,
                   meters, collector, initPc, sdPc, sdBlocked>>
    /\ UNCHANGED <<initCalls, shutdownCalls, initResult, sdResult, teardowns,
                   collectorStops>>
    /\ UNCHANGED helperVars
    /\ UNCHANGED libVars

\* Application code calls GetMeter(name), creates a counter on what it got
\* and adds to it.
CallGetMeter(n) ==
    /\ meters' = GetMeter(n).cache
    /\ minted' = MintedAfter({n})
    /\ lastHandle' = [op |-> "GetMeter", kind |-> GetMeter(n).h.kind]
    /\ returned' = Returned("GetMeter", "metrics", n, GetMeter(n).h)
    /\ panicked' = (panicked \/ GetMeter(n).h.kind = "nil")
    /\ sideEffect' = (sideEffect \/ GetMeter(n).h.kind = "real")
    /\ UNCHANGED <<config, mu, initialized, running, provider, globalProvider, helperGlobal,
                   tracers, collector, initPc, sdPc, sdBlocked>>
    /\ UNCHANGED <<initCalls, shutdownCalls, initResult, sdResult, teardowns,
                   collectorStops>>
    /\ UNCHANGED helperVars
    /\ UNCHANGED libVars

\* ------------------------------------------------------------ Agent.Init
ErrAlreadyInitialized == "go-otel-agent: agent already initialized"
ErrMissingServiceName == "go-otel-agent: service name is required"
ErrBuildResource == "failed to build resource"
ErrCollectors == "failed to initialize collectors"
\* The error Init returns when the provider of sig cannot be built.
CreateErr(sig) ==
    CASE sig = "traces" -> "failed to create trace provider"
      [] sig = "metrics" -> "failed to create metric provider"
      [] sig = "logs" -> "failed to create log provider"

\* Head checks without the initialized check.
InitCheckNoInitialized ==
    CASE ~config.Enabled -> "disabled"
      [] config.ServiceName = "" -> "noname"
      [] OTHER -> "build"

\* Head checks without the Enabled check.
InitCheckNoEnabled ==
    CASE initialized -> "already"
      [] config.ServiceName = "" -> "noname"
      [] OTHER -> "build"

\* Head checks without the service-name check.
InitCheckNoServiceName ==
    CASE initialized -> "already"
      [] ~config.Enabled -> "disabled"
      [] OTHER -> "build"

\* The checks at the head of Init, in the order the code makes them.
InitCheck ==
    CASE initialized -> "already"
      [] ~config.Enabled -> "disabled"
      [] config.ServiceName = "" -> "noname"
      [] OTHER -> "build"

InitReturn(v) == [val |-> v, call |-> initCalls]
InitAt(step, i) == [step |-> step, sig |-> i]
InitIdle == InitAt("idle", 0)
\* Where Init goes after the block of signal number i (0: after the
\* resource): the block of the next signal the configuration enables.
InitAfter(i) ==
    LET later == {j \in (i + 1)..Len(SigOrder) : config.Signal[SigOrder[j]]}
    IN  IF later = {}
        THEN InitAt("collectors", 0)
        ELSE InitAt("construct", CHOOSE j \in later : \A k \in later : j <= k)

\* Init without a.mu.Lock(): a call starts while another is under way.
InitBeginNoLock ==
    /\ initCalls < MaxInits
    /\ initCalls' = initCalls + 1
    /\ \/ /\ InitCheck = "already"
          /\ initResult' = [val |-> ErrAlreadyInitialized, call |-> initCalls']
          /\ UNCHANGED <<initialized, mu, initPc>>
       \/ /\ InitCheck = "disabled"
          /\ initialized' = TRUE
          /\ initResult' = [val |-> "nil", call |-> initCalls']
          /\ UNCHANGED <<mu, initPc>>
       \/ /\ InitCheck = "noname"
          /\ initResult' = [val |-> ErrMissingServiceName, call |-> initCalls']
          /\ UNCHANGED <<initialized, mu, initPc>>
       \/ /\ InitCheck = "build"
          /\ \E ok \in BOOLEAN :
                IF ok
                THEN /\ mu' = "Init"
                     /\ initPc' = InitAfter(0)
                     /\ UNCHANGED <<initialized, initResult>>
                ELSE /\ initResult' = [val |-> ErrBuildResource, call |-> initCalls']
                     /\ UNCHANGED <<initialized, mu, initPc>>
    /\ UNCHANGED <<config, running, provider, globalProvider, helperGlobal, tracers,
                   meters, collector, sdPc, sdBlocked>>
    /\ UNCHANGED <<shutdownCalls, sdResult, lastHandle, returned, minted, teardowns,
                   collectorStops, panicked, sideEffect>>
    /\ UNCHANGED helperVars
    /\ UNCHANGED libVars

\* Lock a.mu, make the head checks and build the resource.
InitBegin ==
    /\ mu = "free"
    /\ initCalls < MaxInits
    /\ initCalls' = initCalls + 1
    /\ \/ /\ InitCheck = "already"
          /\ initResult' = [val |-> ErrAlreadyInitialized, call |-> initCalls']
          /\ UNCHANGED <<initialized, mu, initPc>>
       \/ /\ InitCheck = "disabled"
          /\ initialized' = TRUE
          /\ initResult' = [val |-> "nil", call |-> initCalls']
          /\ UNCHANGED <<mu, initPc>>
       \/ /\ InitCheck = "noname"
          /\ initResult' = [val |-> ErrMissingServiceName, call |-> initCalls']
          /\ UNCHANGED <<initialized, mu, initPc>>
       \/ /\ InitCheck = "build"
          /\ \E ok \in BOOLEAN :
                IF ok
                THEN /\ mu' = "Init"
                     /\ initPc' = InitAfter(0)
                     /\ UNCHANGED <<initialized, initResult>>
                ELSE /\ initResult' = [val |-> ErrBuildResource, call |-> initCalls']
                     /\ UNCHANGED <<initialized, mu, initPc>>
    /\ UNCHANGED <<config, running, provider, globalProvider, helperGlobal, tracers,
                   meters, collector, sdPc, sdBlocked>>
    /\ UNCHANGED <<shutdownCalls, sdResult, lastHandle, returned, minted, teardowns,
                   collectorStops, panicked, sideEffect>>
    /\ UNCHANGED helperVars
    /\ UNCHANGED libVars

\* The construction step with a rollback: on an error every provider field
\* and every process-wide provider is reset before Init returns.
InitConstructRollback(i) ==
    /\ mu = "Init"
    /\ initPc = InitAt("construct", i)
    /\ \E ok \in BOOLEAN :
          IF ok
          THEN /\ provider' = [provider EXCEPT ![SigOrder[i]] = initCalls]
               /\ initPc' = InitAt("install", i)
               /\ UNCHANGED <<mu, initResult, globalProvider>>
          ELSE /\ provider' = [s \in Signals |-> Nil]
               /\ globalProvider' = [s \in Signals |-> Nil]
               /\ initResult' = InitReturn(CreateErr(SigOrder[i]))
               /\ initPc' = InitIdle
               /\ mu' = "free"
    /\ UNCHANGED <<config, initialized, running, helperGlobal, tracers,
                   meters, collector, sdPc, sdBlocked>>
    /\ UNCHANGED <<initCalls, shutdownCalls, sdResult, lastHandle, returned, minted, teardowns,
                   collectorStops, panicked, sideEffect>>
    /\ UNCHANGED helperVars
    /\ UNCHANGED libVars

\* if a.config.<Sig>.Enabled { a.<sig>Provider, err = provider.New<Sig>Provider(...) }:
\* on an error the field is assigned nil and Init returns the wrapped error.
InitConstruct(i) ==
    /\ mu = "Init"
    /\ initPc = InitAt("construct", i)
    /\ \E ok \in BOOLEAN :
          IF ok
          THEN /\ provider' = [provider EXCEPT ![SigOrder[i]] = initCalls]
               /\ initPc' = InitAt("install", i)
               /\ UNCHANGED <<mu, initResult>>
          ELSE /\ provider' = [provider EXCEPT ![SigOrder[i]] = Nil]
               /\ initResult' = InitReturn(CreateErr(SigOrder[i]))
               /\ initPc' = InitIdle
               /\ mu' = "free"
    /\ UNCHANGED <<config, initialized, running, globalProvider, helperGlobal, tracers,
                   meters, collector, sdPc, sdBlocked>>
    /\ UNCHANGED <<initCalls, shutdownCalls, sdResult, lastHandle, returned, minted, teardowns,
                   collectorStops, panicked, sideEffect>>
    /\ UNCHANGED helperVars
    /\ UNCHANGED libVars

\* otel.SetTracerProvider / otel.SetMeterProvider / logglobal.SetLoggerProvider
InitInstall(i) ==
    /\ mu = "Init"
    /\ initPc = InitAt("install", i)
    /\ globalProvider' = [globalProvider EXCEPT ![SigOrder[i]] = provider[SigOrder[i]]]
    /\ initPc' = InitAfter(i)
    /\ UNCHANGED <<config, mu, initialized, running, provider, helperGlobal, tracers,
                   meters, collector, sdPc, sdBlocked>>
    /\ UNCHANGED obsVars
    /\ UNCHANGED helperVars
    /\ UNCHANGED libVars

\* The sub-collectors of a MetricCollector; initCollectors builds all four
\* under the default Metrics.Runtime and Metrics.Business settings.
SubCollectors == {"runtime", "business", "performance", "system"}

\* go mc.<sub>.Collect(ctx, mc.stopChan) for each sub-collector that is not
\* nil.  ts[c] is "running" while a Collect goroutine of c is alive.
Launch(ts) == [c \in SubCollectors |-> IF ts[c] = "nil" THEN "nil" ELSE "running"]

\* collector.New: a stopped collector with an open stop channel.
NewCollector == [exists |-> TRUE, running |-> FALSE, closed |-> 0]
NoCollector == [exists |-> FALSE, running |-> FALSE, closed |-> 0]

\* Agent.initCollectors, when metrics are enabled: four GetMeter calls, then
\* the sub-collectors are built, which can fail.
InitCollectors ==
    /\ mu = "Init"
    /\ initPc = InitAt("collectors", 0)
    /\ IF ~config.Signal["metrics"]
       THEN /\ initPc' = InitAt("finish", 0)
            /\ UNCHANGED <<meters, minted, collector, tasks, mu, initResult>>
       ELSE /\ meters' = MetersAfter(CollectorMeters)
            /\ minted' = MintedAfter(CollectorMeters)
            /\ \E ok \in BOOLEAN :
                  IF ok
                  THEN /\ collector' = NewCollector
                       /\ tasks' = [c \in SubCollectors |-> "new"]
                       /\ initPc' = InitAt("finish", 0)
                       /\ UNCHANGED <<mu, initResult>>
                  ELSE /\ initResult' = InitReturn(ErrCollectors)
                       /\ initPc' = InitIdle
                       /\ mu' = "free"
                       /\ UNCHANGED <<collector, tasks>>
    /\ UNCHANGED <<config, initialized, running, provider, globalProvider, helperGlobal,
                   tracers, sdPc, sdBlocked>>
    /\ UNCHANGED <<initCalls, shutdownCalls, sdResult, lastHandle, returned, teardowns,
                   collectorStops, panicked, sideEffect>>
    /\ UNCHANGED helperVars
    /\ UNCHANGED <<ctxDone, ticks>>
    /\ UNCHANGED <<lazyVars, ginVars, healthVars, probeVars, matcherVars, scrubVars, rwVars>>

\* MetricCollector.Start: an error when already running, else running.
CollectorStart(c) == IF c.running THEN c ELSE [c EXCEPT !.running = TRUE]

\* helper.SetGlobalProvider(a); initialized and running are set; the
\* collector is started with the context of Init, which launches the Collect
\* goroutines; Init returns nil.
InitFinish ==
    /\ mu = "Init"
    /\ initPc = InitAt("finish", 0)
    /\ helperGlobal' = TRUE
    /\ initialized' = TRUE
    /\ running' = TRUE
    /\ collector' = IF collector.exists THEN CollectorStart(collector) ELSE collector
    /\ tasks' = IF collector.exists /\ ~collector.running THEN Launch(tasks) ELSE tasks
    /\ initResult' = InitReturn("nil")
    /\ initPc' = InitIdle
    /\ mu' = "free"
    /\ UNCHANGED <<config, provider, globalProvider, tracers, meters, sdPc, sdBlocked>>
    /\ UNCHANGED <<initCalls, shutdownCalls, sdResult, lastHandle, returned, minted, teardowns,
                   collectorStops, panicked, sideEffect>>
    /\ UNCHANGED helperVars
    /\ UNCHANGED <<ctxDone, ticks>>
    /\ UNCHANGED <<lazyVars, ginVars, healthVars, probeVars, matcherVars, scrubVars, rwVars>>

\* -------------------------------------------------------- Agent.Shutdown
SdAt(step, i) == [step |-> step, sig |-> i]
SdIdle == SdAt("idle", 0)
\* Where Shutdown goes after the teardown of signal number i (0: after the
\* collector): the next signal whose provider field is not nil.
SdAfter(i) ==
    LET later == {j \in (i + 1)..Len(SigOrder) : provider[SigOrder[j]] # Nil}
    IN  IF later = {}
        THEN SdAt("end", 0)
        ELSE SdAt("provider", CHOOSE j \in later : \A k \in later : j <= k)

\* MetricCollector.Stop: nothing when not running, else the stop channel is
\* closed and running cleared; it returns nil either way.  closed counts the
\* close(stopChan) calls: the second one panics before running is cleared.
CollectorStop(c) ==
    IF ~c.running THEN c
    ELSE IF c.closed > 0 THEN [c EXCEPT !.closed = @ + 1]
    ELSE [c EXCEPT !.closed = @ + 1, !.running = FALSE]

\* Lock a.mu; an agent that is not initialized returns nil at once.
ShutdownBegin ==
    /\ mu = "free"
    /\ shutdownCalls < MaxShutdowns
    /\ shutdownCalls' = shutdownCalls + 1
    /\ IF ~initialized
       THEN /\ sdResult' = [val |-> "nil", call |-> shutdownCalls', noop |-> TRUE,
                            attempted |-> {}, failed |-> FALSE]
            /\ UNCHANGED <<mu, sdPc>>
       ELSE /\ mu' = "Shutdown"
            /\ sdPc' = SdAt("collector", 0)
            /\ sdResult' = [val |-> "pending", call |-> shutdownCalls', noop |-> FALSE,
                            attempted |-> {}, failed |-> FALSE]
    /\ UNCHANGED <<config, initialized, running, provider, globalProvider, helperGlobal,
                   tracers, meters, collector, initPc, sdBlocked>>
    /\ UNCHANGED <<initCalls, initResult, lastHandle, returned, minted, teardowns,
                   collectorStops, panicked, sideEffect>>
    /\ UNCHANGED helperVars
    /\ UNCHANGED libVars

\* A Shutdown that goes on to the providers without stopping the collector.
ShutdownLeavesCollector ==
    /\ mu = "Shutdown"
    /\ sdPc = SdAt("collector", 0)
    /\ collector' = collector
    /\ collectorStops' = collectorStops + (collector'.closed - collector.closed)
    /\ sdPc' = SdAfter(0)
    /\ UNCHANGED <<config, mu, initialized, running, provider, globalProvider, helperGlobal,
                   tracers, meters, initPc, sdBlocked>>
    /\ UNCHANGED <<initCalls, shutdownCalls, initResult, sdResult, lastHandle, returned, minted,
                   teardowns, panicked, sideEffect>>
    /\ UNCHANGED helperVars
    /\ UNCHANGED libVars

\* if a.collector != nil { a.collector.Stop(shutdownCtx) }
ShutdownStopCollector ==
    /\ mu = "Shutdown"
    /\ sdPc = SdAt("collector", 0)
    /\ collector' = IF collector.exists THEN CollectorStop(collector) ELSE collector
    /\ collectorStops' = collectorStops + (collector'.closed - collector.closed)
    /\ sdPc' = SdAfter(0)
    /\ UNCHANGED <<config, mu, initialized, running, provider, globalProvider, helperGlobal,
                   tracers, meters, initPc, sdBlocked>>
    /\ UNCHANGED <<initCalls, shutdownCalls, initResult, sdResult, lastHandle, returned, minted,
                   teardowns, panicked, sideEffect>>
    /\ UNCHANGED helperVars
    /\ UNCHANGED libVars

\* What a provider's Shutdown(shutdownCtx) call can do: return nil, return an
\* error (its own, or the context's deadline), or never return when the
\* provider does not honour the context.
TeardownOutcomes == {"ok", "err", "hang"}

\* The teardown step of a Shutdown that returns the first teardown error
\* instead of logging it (as ForceFlush does with its flush errors).
ShutdownProviderFailFast(i) ==
    /\ mu = "Shutdown"
    /\ ~sdBlocked
    /\ sdPc = SdAt("provider", i)
    /\ teardowns' = [teardowns EXCEPT ![SigOrder[i]] = @ + 1]
    /\ \E r \in TeardownOutcomes :
          /\ sdBlocked' = (r = "hang")
          /\ sdPc' = CASE r = "hang" -> sdPc [] r = "err" -> SdIdle [] OTHER -> SdAfter(i)
          /\ mu' = IF r = "err" THEN "free" ELSE mu
          /\ sdResult' = [sdResult EXCEPT
                !.val = IF r = "err" THEN "error" ELSE @,
                !.attempted = @ \cup {SigOrder[i]},
                !.failed = (@ \/ r = "err")]
    /\ UNCHANGED <<config, initialized, running, provider, globalProvider, helperGlobal,
                   tracers, meters, collector, initPc>>
    /\ UNCHANGED <<initCalls, shutdownCalls, initResult, lastHandle, returned, minted,
                   collectorStops, panicked, sideEffect>>
    /\ UNCHANGED helperVars
    /\ UNCHANGED libVars

\* if a.<sig>Provider != nil { a.<sig>Provider.Shutdown(shutdownCtx) }: the
\* call is made on the caller's goroutine; an error is logged.
ShutdownProvider(i) ==
    /\ mu = "Shutdown"
    /\ ~sdBlocked
    /\ sdPc = SdAt("provider", i)
    /\ teardowns' = [teardowns EXCEPT ![SigOrder[i]] = @ + 1]
    /\ \E r \in TeardownOutcomes :
          /\ sdBlocked' = (r = "hang")
          /\ sdPc' = IF r = "hang" THEN sdPc ELSE SdAfter(i)
          /\ sdResult' = [sdResult EXCEPT
                !.attempted = @ \cup {SigOrder[i]},
                !.failed = (@ \/ r = "err")]
    /\ UNCHANGED <<config, mu, initialized, running, provider, globalProvider, helperGlobal,
                   tracers, meters, collector, initPc>>
    /\ UNCHANGED <<initCalls, shutdownCalls, initResult, lastHandle, returned, minted,
                   collectorStops, panicked, sideEffect>>
    /\ UNCHANGED helperVars
    /\ UNCHANGED libVars

\* The end of a Shutdown that would let the agent be initialized again.
ShutdownEndClearsInitialized ==
    /\ mu = "Shutdown"
    /\ sdPc = SdAt("end", 0)
    /\ running' = FALSE
    /\ initialized' = FALSE
    /\ sdResult' = [sdResult EXCEPT !.val = "nil"]
    /\ sdPc' = SdIdle
    /\ mu' = "free"
    /\ UNCHANGED <<config, provider, globalProvider, helperGlobal,
                   tracers, meters, collector, initPc, sdBlocked>>
    /\ UNCHANGED <<initCalls, shutdownCalls, initResult, lastHandle, returned, minted, teardowns,
                   collectorStops, panicked, sideEffect>>
    /\ UNCHANGED helperVars
    /\ UNCHANGED libVars

\* a.running = false; return nil (the deferred unlock releases a.mu).
ShutdownEnd ==
    /\ mu = "Shutdown"
    /\ sdPc = SdAt("end", 0)
    /\ running' = FALSE
    /\ sdResult' = [sdResult EXCEPT !.val = "nil"]
    /\ sdPc' = SdIdle
    /\ mu' = "free"
    /\ UNCHANGED <<config, initialized, provider, globalProvider, helperGlobal,
                   tracers, meters, collector, initPc, sdBlocked>>
    /\ UNCHANGED <<initCalls, shutdownCalls, initResult, lastHandle, returned, minted, teardowns,
                   collectorStops, panicked, sideEffect>>
    /\ UNCHANGED helperVars
    /\ UNCHANGED libVars

\* ------------------------------------------- helper instrument caches
\* component := "default" unless opts names one.
Component(c) == IF c = "" THEN "default" ELSE c
\* cacheKey := component + ":" + name
CacheKey(c, name) == <<Component(c), ":", name>>
Keys == {CacheKey(c, n) : c \in CompInputs, n \in InstrNames}

\* Instruments: the provider of the meter that made it (Nil for the no-op
\* meter) and which creation for its cache and key it is.
Inst(p, n) == [prov |-> p, serial |-> n]
NoInst == Inst(-1, 0)

\* A goroutine before its helper call, and after the call has returned.
HIdle == [pc |-> "idle", kind |-> "", comp |-> "", name |-> "", inst |-> NoInst]
HDone == [pc |-> "done", kind |-> "", comp |-> "", name |-> "", inst |-> NoInst]

HelperInit ==
    /\ hpc = [t \in Threads |-> HIdle]
    /\ icache = [k \in Kinds |-> [key \in Keys |-> NoInst]]
    /\ created = [k \in Kinds |-> [key \in Keys |-> 0]]
    /\ recorded = [k \in Kinds |-> [key \in Keys |-> {}]]

\* The provider p a helper call works on: the agent itself, or, through
\* Measure / Count, helper.GlobalProvider(), which is nil until Init sets it.
ProviderIsNil(viaGlobal) == viaGlobal /\ ~helperGlobal

\* cache.Load(cacheKey)
CacheLoad(k, key) == icache[k][key]

\* Entry of RecordDuration / IncrementCounter / SetGauge up to the cache
\* lookup: return when p is nil or disabled; a hit goes on to record on the
\* cached instrument, a miss goes on to create one.
HelperBegin(t, k, c, n, viaGlobal) ==
    /\ hpc[t].pc = "idle"
    /\ viaGlobal => k # "gauge"
    /\ IF ProviderIsNil(viaGlobal) \/ ~IsEnabled
       THEN hpc' = [hpc EXCEPT ![t] = HDone]
       ELSE hpc' = [hpc EXCEPT ![t] =
                [pc |-> IF CacheLoad(k, CacheKey(c, n)) # NoInst THEN "record" ELSE "create",
                 kind |-> k, comp |-> Component(c), name |-> n,
                 inst |-> CacheLoad(k, CacheKey(c, n))]]
    /\ UNCHANGED <<icache, created, recorded>>
    /\ UNCHANGED agentVars
    /\ UNCHANGED obsVars
    /\ UNCHANGED libVars

\* An instrument creation that goes on to store and use what a failed
\* factory returned.
HelperCreateKeepsFailure(t) ==
    /\ hpc[t].pc = "create"
    /\ meters' = GetMeter(hpc[t].comp).cache
    /\ minted' = MintedAfter({hpc[t].comp})
    /\ returned' = Returned("GetMeter", "metrics", hpc[t].comp, GetMeter(hpc[t].comp).h)
    /\ \E ok \in BOOLEAN :
          /\ ~ok => GetMeter(hpc[t].comp).h.kind = "real"
          /\ IF ok
             THEN /\ hpc' = [hpc EXCEPT ![t].pc = "store",
                                ![t].inst = Inst(GetMeter(hpc[t].comp).h.prov,
                                     created[hpc[t].kind][<<hpc[t].comp, ":", hpc[t].name>>] + 1)]
                  /\ created' = [created EXCEPT
                                   ![hpc[t].kind][<<hpc[t].comp, ":", hpc[t].name>>] = @ + 1]
             ELSE /\ hpc' = [hpc EXCEPT ![t].pc = "store", ![t].inst = Inst(Nil, 0)]
                  /\ UNCHANGED created
    /\ UNCHANGED <<icache, recorded>>
    /\ UNCHANGED <<config, mu, initialized, running, provider, globalProvider, helperGlobal,
                   tracers, collector, initPc, sdPc, sdBlocked>>
    /\ UNCHANGED <<initCalls, shutdownCalls, initResult, sdResult, lastHandle, teardowns,
                   collectorStops, panicked, sideEffect>>
    /\ UNCHANGED libVars

\* meter := p.GetMeter(component); instrument, err := meter.<Kind>(name): on
\* an error the call returns and nothing is stored.  The no-op meter never
\* fails.
HelperCreate(t) ==
    /\ hpc[t].pc = "create"
    /\ meters' = GetMeter(hpc[t].comp).cache
    /\ minted' = MintedAfter({hpc[t].comp})
    /\ returned' = Returned("GetMeter", "metrics", hpc[t].comp, GetMeter(hpc[t].comp).h)
    /\ \E ok \in BOOLEAN :
          /\ ~ok => GetMeter(hpc[t].comp).h.kind = "real"
          /\ IF ok
             THEN /\ hpc' = [hpc EXCEPT ![t].pc = "store",
                                ![t].inst = Inst(GetMeter(hpc[t].comp).h.prov,
                                     created[hpc[t].kind][<<hpc[t].comp, ":", hpc[t].name>>] + 1)]
                  /\ created' = [created EXCEPT
                                   ![hpc[t].kind][<<hpc[t].comp, ":", hpc[t].name>>] = @ + 1]
             ELSE /\ hpc' = [hpc EXCEPT ![t] = HDone]
                  /\ UNCHANGED created
    /\ UNCHANGED <<icache, recorded>>
    /\ UNCHANGED <<config, mu, initialized, running, provider, globalProvider, helperGlobal,
                   tracers, collector, initPc, sdPc, sdBlocked>>
    /\ UNCHANGED <<initCalls, shutdownCalls, initResult, sdResult, lastHandle, teardowns,
                   collectorStops, panicked, sideEffect>>
    /\ UNCHANGED libVars

\* cache.Store(cacheKey, instrument)
CacheStore(k, key, inst) == [icache EXCEPT ![k][key] = inst]

\* cache.Store(cacheKey, instrument) after a creation, then for every call
\* that got this far histogram.Record / counter.Add / gauge.Record on the
\* instrument in hand (the recording touches the instrument alone).
HelperRecord(t) ==
    /\ hpc[t].pc \in {"store", "record"}
    /\ icache' = IF hpc[t].pc = "store"
                 THEN CacheStore(hpc[t].kind, <<hpc[t].comp, ":", hpc[t].name>>, hpc[t].inst)
                 ELSE icache
    /\ recorded' = [recorded EXCEPT
                      ![hpc[t].kind][<<hpc[t].comp, ":", hpc[t].name>>] = @ \cup {hpc[t].inst}]
    /\ hpc' = [hpc EXCEPT ![t] = HDone]
    /\ UNCHANGED created
    /\ UNCHANGED agentVars
    /\ UNCHANGED obsVars
    /\ UNCHANGED libVars


\* --------------------------------------------- gormplugin: lazyTracer
\* Number of lazyTracer.Start calls made.
MaxStarts == 2

\* otel.GetTracerProvider(): the process-wide tracer provider (Nil stands for
\* the no-op provider that is installed until Init installs a real one).
GetTracerProvider == globalProvider["traces"]

\* A lazy tracer that keeps the provider its first Start call resolved.
LazyTracerStartCaptured ==
    /\ Len(lazyUsed) < MaxStarts
    /\ lazyUsed' = Append(lazyUsed, IF lazyUsed = <<>> THEN GetTracerProvider ELSE lazyUsed[1])
    /\ UNCHANGED <<agentVars, obsVars, helperVars>>
    /\ UNCHANGED <<ginVars, healthVars, probeVars, matcherVars, scrubVars, taskVars, rwVars>>

\* lazyTracer.Start: otel.GetTracerProvider().Tracer(t.name, t.opts...).Start(...)
LazyTracerStart ==
    /\ Len(lazyUsed) < MaxStarts
    /\ lazyUsed' = Append(lazyUsed, GetTracerProvider)
    /\ UNCHANGED <<agentVars, obsVars, helperVars>>
    /\ UNCHANGED <<ginVars, healthVars, probeVars, matcherVars, scrubVars, taskVars, rwVars>>

LazyInit == lazyUsed = <<>>

\* ------------------------------------------ ginmiddleware: New / lazyInit
\* A request goroutine: where it is in the handler and whether it had to
\* wait inside initOnce.Do.
GinAt(pc, waited) == [pc |-> pc, waited |-> waited]
\* The variables the handler closes over, before the one-time setup.
GinUnset == [built |-> FALSE, tracer |-> Nil, meter |-> NoHandle]

GinInit ==
    /\ initOnce = "new"
    /\ gpc = [t \in Threads |-> GinAt("idle", FALSE)]
    /\ ginState = GinUnset
    /\ setupCount = 0
    /\ usedUnbuilt = FALSE

\* The handler New returns, up to and into lazyInit: the pass-through handler
\* of a disabled agent, an excluded or filtered request, or initOnce.Do, which
\* runs the setup in the first caller and blocks the others until it is done.
GinRequest(t) ==
    /\ gpc[t].pc = "idle"
    /\ \E skip \in BOOLEAN :
          gpc' = [gpc EXCEPT ![t] =
                    CASE ~IsEnabled \/ skip -> GinAt("passed", FALSE)
                      [] initOnce = "new" -> GinAt("setup", FALSE)
                      [] initOnce = "running" -> GinAt("wait", TRUE)
                      [] OTHER -> GinAt("use", FALSE)]
    /\ initOnce' = IF IsEnabled /\ initOnce = "new" /\ gpc'[t].pc = "setup"
                   THEN "running" ELSE initOnce
    /\ UNCHANGED <<ginState, setupCount, usedUnbuilt>>
    /\ UNCHANGED <<agentVars, obsVars, helperVars>>
    /\ UNCHANGED <<lazyVars, healthVars, probeVars, matcherVars, scrubVars, taskVars, rwVars>>

\* The function given to initOnce.Do: the scrubber, the tracer of the current
\* process-wide provider, agent.GetMeter(scopeName) and the three instruments.
GinSetup(t) ==
    /\ gpc[t].pc = "setup"
    /\ ginState' = [built |-> TRUE, tracer |-> GetTracerProvider,
                    meter |-> GetMeter(scopeName).h]
    /\ meters' = GetMeter(scopeName).cache
    /\ minted' = MintedAfter({scopeName})
    /\ returned' = Returned("GetMeter", "metrics", scopeName, GetMeter(scopeName).h)
    /\ setupCount' = setupCount + 1
    /\ initOnce' = "done"
    /\ gpc' = [gpc EXCEPT ![t] = GinAt("use", FALSE)]
    /\ UNCHANGED usedUnbuilt
    /\ UNCHANGED <<config, mu, initialized, running, provider, globalProvider, helperGlobal,
                   tracers, collector, initPc, sdPc, sdBlocked>>
    /\ UNCHANGED <<initCalls, shutdownCalls, initResult, sdResult, lastHandle, teardowns,
                   collectorStops, panicked, sideEffect>>
    /\ UNCHANGED helperVars
    /\ UNCHANGED <<lazyVars, healthVars, probeVars, matcherVars, scrubVars, taskVars, rwVars>>

\* A once whose Do returns at once in a caller that finds the setup under way.
GinWaitNoBlock(t) ==
    /\ gpc[t].pc = "wait"
    /\ gpc' = [gpc EXCEPT ![t].pc = "use"]
    /\ UNCHANGED <<initOnce, ginState, setupCount, usedUnbuilt>>
    /\ UNCHANGED <<agentVars, obsVars, helperVars>>
    /\ UNCHANGED <<lazyVars, healthVars, probeVars, matcherVars, scrubVars, taskVars, rwVars>>

\* initOnce.Do in a caller that found the setup under way: it returns when
\* the setup has returned.
GinWait(t) ==
    /\ gpc[t].pc = "wait"
    /\ initOnce = "done"
    /\ gpc' = [gpc EXCEPT ![t].pc = "use"]
    /\ UNCHANGED <<initOnce, ginState, setupCount, usedUnbuilt>>
    /\ UNCHANGED <<agentVars, obsVars, helperVars>>
    /\ UNCHANGED <<lazyVars, healthVars, probeVars, matcherVars, scrubVars, taskVars, rwVars>>

\* The rest of the handler: tracer.Start, the scrubber and the instruments
\* are used as they are at this moment.
GinServe(t) ==
    /\ gpc[t].pc = "use"
    /\ usedUnbuilt' = (usedUnbuilt \/ ~ginState.built)
    /\ gpc' = [gpc EXCEPT ![t].pc = "served"]
    /\ UNCHANGED <<initOnce, ginState, setupCount>>
    /\ UNCHANGED <<agentVars, obsVars, helperVars>>
    /\ UNCHANGED <<lazyVars, healthVars, probeVars, matcherVars, scrubVars, taskVars, rwVars>>

\* ------------------------------------------------ provider.ExporterHealth
\* RecordFailure calls made on one signal without a RecordSuccess between.
MaxFailures == 11

ExporterHealthy == 0
ExporterDegraded == 1
ExporterUnhealthy == 2
\* NewExporterHealth's thresholds.
degradedThreshold == 3
unhealthyThreshold == 10

\* h.consecutiveFailures[signal] as a Go map read: 0 for a signal not in it.
Failures(m, signal) == IF signal \in DOMAIN m THEN m[signal] ELSE 0
\* h.consecutiveFailures[signal] = v
SetFailures(m, signal, v) ==
    [x \in DOMAIN m \cup {signal} |-> IF x = signal THEN v ELSE m[x]]

\* A RecordSuccess that takes one failure off instead of resetting.
RecordSuccessDecrement(m, signal) ==
    SetFailures(m, signal, IF Failures(m, signal) > 0 THEN Failures(m, signal) - 1 ELSE 0)

\* The map after RecordSuccess(signal): consecutiveFailures[signal] = 0
RecordSuccessOn(m, signal) == SetFailures(m, signal, 0)

\* A RecordFailure that counts the failure against every tracked signal.
RecordFailureShared(m, signal) ==
    [x \in DOMAIN m \cup {signal} |-> Failures(m, x) + 1]

\* The map after RecordFailure(signal): consecutiveFailures[signal]++
RecordFailureOn(m, signal) == SetFailures(m, signal, Failures(m, signal) + 1)

\* The threshold comparison with > in place of >=.
StatusOfStrict(failures) ==
    IF failures > unhealthyThreshold THEN ExporterUnhealthy
    ELSE IF failures > degradedThreshold THEN ExporterDegraded
    ELSE ExporterHealthy

\* The threshold comparison Status and OverallStatus both make.
StatusOf(failures) ==
    IF failures >= unhealthyThreshold THEN ExporterUnhealthy
    ELSE IF failures >= degradedThreshold THEN ExporterDegraded
    ELSE ExporterHealthy

\* ExporterHealth.Status
Status(signal) == StatusOf(Failures(consecutiveFailures, signal))

\* The loop of OverallStatus over the entries not yet visited.
RECURSIVE OverallOver(_, _, _)
OverallOver(m, rest, worst) ==
    IF rest = {}
    THEN worst
    ELSE LET x == CHOOSE y \in rest : TRUE
         IN  OverallOver(m, rest \ {x},
                         IF StatusOf(m[x]) > worst THEN StatusOf(m[x]) ELSE worst)

\* An OverallStatus that reports one tracked signal's status.
OverallStatusOfOne ==
    IF DOMAIN consecutiveFailures = {}
    THEN ExporterHealthy
    ELSE StatusOf(consecutiveFailures[CHOOSE y \in DOMAIN consecutiveFailures : TRUE])

\* ExporterHealth.OverallStatus
OverallStatus == OverallOver(consecutiveFailures, DOMAIN consecutiveFailures, ExporterHealthy)

\* ExporterHealth.SignalStatuses
SignalStatuses == [x \in DOMAIN consecutiveFailures |-> Status(x)]

\* What is remembered of the last Record call on a signal: which call, and the
\* counter it found.
Event(op, prior) == [op |-> op, prior |-> prior]

\* NewExporterHealth: empty maps.
HealthInit ==
    /\ consecutiveFailures = <<>>
    /\ failuresSince = [x \in Signals |-> 0]
    /\ lastEvent = [x \in Signals |-> Event("none", 0)]

\* ExporterHealth.RecordSuccess
RecordSuccess(signal) ==
    /\ consecutiveFailures' = RecordSuccessOn(consecutiveFailures, signal)
    /\ failuresSince' = [failuresSince EXCEPT ![signal] = 0]
    /\ lastEvent' = [lastEvent EXCEPT
                       ![signal] = Event("success", Failures(consecutiveFailures, signal))]
    /\ UNCHANGED <<agentVars, obsVars, helperVars>>
    /\ UNCHANGED <<lazyVars, ginVars, probeVars, matcherVars, scrubVars, taskVars, rwVars>>

\* ExporterHealth.RecordFailure
RecordFailure(signal) ==
    /\ failuresSince[signal] < MaxFailures
    /\ consecutiveFailures' = RecordFailureOn(consecutiveFailures, signal)
    /\ failuresSince' = [failuresSince EXCEPT ![signal] = @ + 1]
    /\ lastEvent' = [lastEvent EXCEPT
                       ![signal] = Event("failure", Failures(consecutiveFailures, signal))]
    /\ UNCHANGED <<agentVars, obsVars, helperVars>>
    /\ UNCHANGED <<lazyVars, ginVars, probeVars, matcherVars, scrubVars, taskVars, rwVars>>

\* ------------------------------------------- Agent probes and ForceFlush
\* Agent.IsRunning
IsRunning == running

\* A readiness check that looks at initialized alone.
ReadinessCheckInitializedOnly == initialized

\* Agent.ReadinessCheck
ReadinessCheck == initialized /\ running

\* The status string HealthCheck gives for an overall exporter status.
StatusString(st) ==
    CASE st = ExporterHealthy -> "ok"
      [] st = ExporterDegraded -> "degraded"
      [] st = ExporterUnhealthy -> "unhealthy"
      [] OTHER -> "unknown"

\* Agent.HealthCheck
HealthCheck ==
    IF ~config.Enabled
    THEN [Status |-> "ok", Signals |-> <<>>, Running |-> FALSE, Enabled |-> FALSE]
    ELSE [Status |-> StatusString(OverallStatus), Signals |-> SignalStatuses,
          Running |-> IsRunning, Enabled |-> config.Enabled]

\* What a probe handler answered: the HTTP status code and the body's field.
Probe(op, code, answer) == [op |-> op, code |-> code, answer |-> answer]

\* ginmiddleware.ReadinessHandler; ReadinessCheck takes a.mu.RLock, so it
\* answers only while neither Init nor Shutdown holds the lock.
ReadinessHandler ==
    /\ mu = "free"
    /\ lastProbe' = IF ReadinessCheck
                    THEN Probe("ready", "200", "true")
                    ELSE Probe("ready", "503", "false")
    /\ UNCHANGED <<flushResult, healthCall>>
    /\ UNCHANGED <<agentVars, obsVars, helperVars>>
    /\ UNCHANGED <<lazyVars, ginVars, healthVars, matcherVars, scrubVars, taskVars, rwVars>>

\* ginmiddleware.HealthHandler; HealthCheck of an enabled agent calls
\* IsRunning, which takes a.mu.RLock.
HealthHandler ==
    /\ config.Enabled => mu = "free"
    /\ lastProbe' = Probe("health",
                          IF HealthCheck.Status = "unhealthy" THEN "503" ELSE "200",
                          HealthCheck.Status)
    /\ UNCHANGED <<flushResult, healthCall>>
    /\ UNCHANGED <<agentVars, obsVars, helperVars>>
    /\ UNCHANGED <<lazyVars, ginVars, healthVars, matcherVars, scrubVars, taskVars, rwVars>>

\* What a provider's ForceFlush(ctx) call can return.
FlushOutcomes == {"ok", "err"}
\* The error ForceFlush returns when the flush of sig fails.
FlushErr(sig) ==
    CASE sig = "traces" -> "trace flush"
      [] sig = "metrics" -> "metric flush"
      [] sig = "logs" -> "log flush"

\* The positions in SigOrder of the providers the agent holds.
ActiveProviders == {i \in 1..Len(SigOrder) : provider[SigOrder[i]] # Nil}

FlushReturn(val, attempted, wasInit) ==
    [val |-> val, attempted |-> attempted, initialized |-> wasInit]

\* Agent.ForceFlush, under a.mu.RLock: each held provider is flushed in turn
\* and the first error is returned at once, wrapped with the signal.
ForceFlush ==
    /\ mu = "free"
    /\ IF ~initialized
       THEN flushResult' = FlushReturn("nil", {}, FALSE)
       ELSE \E out \in [Signals -> FlushOutcomes] :
              LET failing == {i \in ActiveProviders : out[SigOrder[i]] = "err"}
                  first == CHOOSE i \in failing : \A j \in failing : i <= j
              IN  IF failing = {}
                  THEN flushResult' =
                         FlushReturn("nil", {SigOrder[i] : i \in ActiveProviders}, TRUE)
                  ELSE flushResult' =
                         FlushReturn(FlushErr(SigOrder[first]),
                                     {SigOrder[i] : i \in {j \in ActiveProviders : j <= first}},
                                     TRUE)
    /\ UNCHANGED <<lastProbe, healthCall>>
    /\ UNCHANGED <<agentVars, obsVars, helperVars>>
    /\ UNCHANGED <<lazyVars, ginVars, healthVars, matcherVars, scrubVars, taskVars, rwVars>>

\* A HealthCheck call that has not returned a HealthStatus yet.
NoHealthStatus == [Status |-> "none", Signals |-> <<>>, Running |-> FALSE, Enabled |-> FALSE]
NoHealthCall == [pc |-> "idle", overall |-> ExporterHealthy, ret |-> NoHealthStatus]

\* Agent.HealthCheck up to the switch: a disabled agent returns at once; an
\* enabled one calls a.health.OverallStatus(), which takes and releases the
\* tracker's read lock.
HealthCheckBegin ==
    /\ healthCall.pc = "idle"
    /\ healthCall' =
          IF ~config.Enabled
          THEN [NoHealthCall EXCEPT
                  !.ret = [Status |-> "ok", Signals |-> <<>>, Running |-> FALSE,
                           Enabled |-> FALSE]]
          ELSE [pc |-> "signals", overall |-> OverallStatus, ret |-> NoHealthStatus]
    /\ UNCHANGED <<lastProbe, flushResult>>
    /\ UNCHANGED <<agentVars, obsVars, helperVars>>
    /\ UNCHANGED <<lazyVars, ginVars, healthVars, matcherVars, scrubVars, taskVars, rwVars>>

\* Agent.HealthCheck from the switch on: the status string of what
\* OverallStatus returned, then a.health.SignalStatuses(), which takes the
\* read lock anew, then a.IsRunning() under a.mu.RLock.
HealthCheckReturn ==
    /\ healthCall.pc = "signals"
    /\ mu = "free"
    /\ healthCall' =
          [pc |-> "idle", overall |-> healthCall.overall,
           ret |-> [Status |-> StatusString(healthCall.overall), Signals |-> SignalStatuses,
                    Running |-> IsRunning, Enabled |-> config.Enabled]]
    /\ UNCHANGED <<lastProbe, flushResult>>
    /\ UNCHANGED <<agentVars, obsVars, helperVars>>
    /\ UNCHANGED <<lazyVars, ginVars, healthVars, matcherVars, scrubVars, taskVars, rwVars>>

ProbeInit ==
    /\ lastProbe = Probe("none", "", "")
    /\ flushResult = FlushReturn("none", {}, FALSE)
    /\ healthCall = NoHealthCall

\* ------------------------------------------------- matcher.RouteMatcher
\* Strings are sequences of characters.  Length of the request paths and
\* number of entries in each list of a RouteExclusionConfig.
MaxPathLen == 3
MaxEntries == 1

PathChars == {"/", "a"}
Paths == UNION {[1..n -> PathChars] : n \in 0..MaxPathLen}
\* Entries the lists are filled from: "" and "/a"; "", "/a" and "/a/";
\* "", "/*", "/a*" and "*/a".
ExactChoices == {<<>>, <<"/", "a">>}
PrefixChoices == {<<>>, <<"/", "a">>, <<"/", "a", "/">>}
PatternChoices == {<<>>, <<"/", "*">>, <<"/", "a", "*">>, <<"*", "/", "a">>}
ListsOf(S) == UNION {[1..n -> S] : n \in 0..MaxEntries}
RouteExclusionConfigs ==
    [ExactPaths : ListsOf(ExactChoices), PrefixPaths : ListsOf(PrefixChoices),
     Patterns : ListsOf(PatternChoices)]

Elems(list) == {list[i] : i \in 1..Len(list)}
NonEmpty(str) == str # <<>>

\* NewRouteMatcher: the exact paths as a set, the prefixes and the patterns
\* without their empty entries; cfg is kept for reference.
NewRouteMatcher(cfg) ==
    [nil |-> FALSE, cfg |-> cfg,
     exactPaths |-> Elems(cfg.ExactPaths),
     prefixPaths |-> SelectSeq(cfg.PrefixPaths, NonEmpty),
     patterns |-> SelectSeq(cfg.Patterns, NonEmpty)]

\* A nil *RouteMatcher.
NilMatcher ==
    [nil |-> TRUE, cfg |-> [ExactPaths |-> <<>>, PrefixPaths |-> <<>>, Patterns |-> <<>>],
     exactPaths |-> {}, prefixPaths |-> <<>>, patterns |-> <<>>]

\* A prefix test that only accepts a prefix ending at a path-segment boundary.
HasPrefixSegment(str, prefix) ==
    /\ Len(prefix) <= Len(str)
    /\ SubSeq(str, 1, Len(prefix)) = prefix
    /\ \/ Len(prefix) = Len(str)
       \/ prefix # <<>> /\ prefix[Len(prefix)] = "/"
       \/ str[Len(prefix) + 1] = "/"

\* strings.HasPrefix
HasPrefix(str, prefix) ==
    /\ Len(prefix) <= Len(str)
    /\ SubSeq(str, 1, Len(prefix)) = prefix

\* path.Match for patterns of literal characters and '*': a '*' takes any
\* run of characters other than '/', a literal takes itself.
RECURSIVE Match(_, _)
Match(pattern, name) ==
    IF pattern = <<>>
    THEN name = <<>>
    ELSE IF Head(pattern) = "*"
    THEN \E k \in 0..Len(name) :
            /\ \A i \in 1..k : name[i] # "/"
            /\ Match(Tail(pattern), SubSeq(name, k + 1, Len(name)))
    ELSE /\ name # <<>>
         /\ Head(name) = Head(pattern)
         /\ Match(Tail(pattern), Tail(name))

\* RouteMatcher.ShouldExclude
ShouldExclude(m, path) ==
    IF m.nil
    THEN FALSE
    ELSE \/ path \in m.exactPaths
         \/ \E i \in 1..Len(m.prefixPaths) : HasPrefix(path, m.prefixPaths[i])
         \/ \E i \in 1..Len(m.patterns) : Match(m.patterns[i], path)

\* A matcher, nil or built from a configuration, and a path to ask it about.
MatcherInit ==
    /\ routeMatcher \in {NewRouteMatcher(cfg) : cfg \in RouteExclusionConfigs} \cup {NilMatcher}
    /\ requestPath \in Paths
    /\ excluded = "unasked"

\* m.ShouldExclude(requestPath)
CallShouldExclude ==
    /\ excluded = "unasked"
    /\ excluded' = IF ShouldExclude(routeMatcher, requestPath) THEN "yes" ELSE "no"
    /\ UNCHANGED <<routeMatcher, requestPath>>
    /\ UNCHANGED <<agentVars, obsVars, helperVars>>
    /\ UNCHANGED <<lazyVars, ginVars, healthVars, probeVars, scrubVars, taskVars, rwVars>>

\* ------------------------------------------------------------- NewAgent
\* The configurations NewAgent can be given through its options.
Configs ==
    [Enabled : BOOLEAN, ServiceName : {"", "svc"}, Signal : [Signals -> BOOLEAN]]

\* The agent NewAgent returns: nothing built, nothing installed.
NewAgent(cfg) ==
    /\ config = cfg
    /\ mu = "free"
    /\ initialized = FALSE
    /\ running = FALSE
    /\ provider = [s \in Signals |-> Nil]
    /\ globalProvider = [s \in Signals |-> Nil]
    /\ helperGlobal = FALSE
    /\ tracers = [n \in AllNames |-> NoHandle]
    /\ meters = [n \in AllNames |-> NoHandle]
    /\ collector = NoCollector
    /\ initPc = InitIdle
    /\ sdPc = SdIdle
    /\ sdBlocked = FALSE

ObsInit ==
    /\ initCalls = 0
    /\ shutdownCalls = 0
    /\ initResult = [val |-> "none", call |-> 0]
    /\ sdResult = [val |-> "none", call |-> 0, noop |-> FALSE, attempted |-> {}, failed |-> FALSE]
    /\ lastHandle = [op |-> "none", kind |-> "none"]
    /\ returned = [op \in {"GetTracer", "GetMeter"} |-> [n \in AllNames |-> {}]]
    /\ minted = [s \in {"traces", "metrics"} |-> [n \in AllNames |-> 0]]
    /\ teardowns = [s \in Signals |-> 0]
    /\ collectorStops = 0
    /\ panicked = FALSE
    /\ sideEffect = FALSE

\* Everything outside the agent in its initial state, with no matcher call
\* to make.
MatcherIdle ==
    /\ routeMatcher = NilMatcher
    /\ requestPath = <<>>
    /\ excluded = "idle"

\* No scrubber has been built.
ScrubIdle ==
    /\ httpScrubber = "idle"
    /\ scrubCall = "idle"
    /\ scrubResult = "idle"
    /\ scrubProcessor = "idle"
    /\ span = "idle"

\* No collector goroutine exists.
TaskIdle ==
    /\ tasks = [c \in SubCollectors |-> "nil"]
    /\ ctxDone = FALSE
    /\ ticks = 0

\* No goroutine uses the health tracker.
RwIdle ==
    /\ rw = "idle"
    /\ hthread = "idle"
    /\ linear = "idle"
    /\ calls = 0

LibInit ==
    /\ LazyInit
    /\ GinInit
    /\ HealthInit
    /\ ProbeInit

Init ==
    /\ \E cfg \in Configs : NewAgent(cfg)
    /\ ObsInit
    /\ HelperInit
    /\ LibInit
    /\ TaskIdle
    /\ RwIdle
    /\ ScrubIdle
    /\ MatcherIdle

Next ==
    \/ InitBegin
    \/ \E i \in 1..Len(SigOrder) : InitConstruct(i)
    \/ \E i \in 1..Len(SigOrder) : InitInstall(i)
    \/ InitCollectors
    \/ InitFinish
    \/ ShutdownBegin
    \/ ShutdownStopCollector
    \/ \E i \in 1..Len(SigOrder) : ShutdownProvider(i)
    \/ ShutdownEnd
    \/ \E n \in TracerNames : CallGetTracer(n)
    \/ \E n \in MeterNames : CallGetMeter(n)

Spec == Init /\ [][Next]_vars

\* The helper metric functions called from several goroutines on an agent
\* whose metrics signal is the only one configured, while Init runs.
HelperConfigs ==
    {c \in Configs : c.ServiceName = "svc" /\ ~c.Signal["traces"] /\ ~c.Signal["logs"]}

InitHelper ==
    /\ \E cfg \in HelperConfigs : NewAgent(cfg)
    /\ ObsInit
    /\ HelperInit
    /\ LibInit
    /\ TaskIdle
    /\ RwIdle
    /\ ScrubIdle
    /\ MatcherIdle

NextHelper ==
    \/ InitBegin
    \/ \E i \in 1..Len(SigOrder) : InitConstruct(i)
    \/ \E i \in 1..Len(SigOrder) : InitInstall(i)
    \/ InitCollectors
    \/ InitFinish
    \/ \E t \in Threads, k \in Kinds, c \in CompInputs, n \in InstrNames, g \in BOOLEAN :
          HelperBegin(t, k, c, n, g)
    \/ \E t \in Threads : HelperCreate(t)
    \/ \E t \in Threads : HelperRecord(t)

SpecHelper == InitHelper /\ [][NextHelper]_vars

\* lazyTracer.Start calls made before, during and after Init.
SpecLazyInit == Init

NextLazy ==
    \/ InitBegin
    \/ \E i \in 1..Len(SigOrder) : InitConstruct(i)
    \/ \E i \in 1..Len(SigOrder) : InitInstall(i)
    \/ InitCollectors
    \/ InitFinish
    \/ LazyTracerStart

SpecLazy == SpecLazyInit /\ [][NextLazy]_vars

\* Requests served by one ginmiddleware handler from several goroutines,
\* before, during and after Init.
GinConfigs == {c \in Configs : c.ServiceName = "svc" /\ ~c.Signal["logs"]}

InitGin ==
    /\ \E cfg \in GinConfigs : NewAgent(cfg)
    /\ ObsInit
    /\ HelperInit
    /\ LibInit
    /\ TaskIdle
    /\ RwIdle
    /\ ScrubIdle
    /\ MatcherIdle

NextGin ==
    \/ InitBegin
    \/ \E i \in 1..Len(SigOrder) : InitConstruct(i)
    \/ \E i \in 1..Len(SigOrder) : InitInstall(i)
    \/ InitCollectors
    \/ InitFinish
    \/ \E t \in Threads : GinRequest(t)
    \/ \E t \in Threads : GinSetup(t)
    \/ \E t \in Threads : GinWait(t)
    \/ \E t \in Threads : GinServe(t)

SpecGin == InitGin /\ [][NextGin]_vars

\* An ExporterHealth tracker on its own.
DefaultConfig == [Enabled |-> TRUE, ServiceName |-> "svc", Signal |-> [x \in Signals |-> TRUE]]

InitHealth ==
    /\ NewAgent(DefaultConfig)
    /\ ObsInit
    /\ HelperInit
    /\ LibInit
    /\ TaskIdle
    /\ RwIdle
    /\ ScrubIdle
    /\ MatcherIdle

NextHealth ==
    \/ \E x \in Signals : RecordSuccess(x)
    \/ \E x \in Signals : RecordFailure(x)

SpecHealth == InitHealth /\ [][NextHealth]_vars

\* The probe handlers called at any moment of the agent's life.
NextProbe ==
    \/ InitBegin
    \/ \E i \in 1..Len(SigOrder) : InitConstruct(i)
    \/ \E i \in 1..Len(SigOrder) : InitInstall(i)
    \/ InitCollectors
    \/ InitFinish
    \/ ShutdownBegin
    \/ ShutdownStopCollector
    \/ \E i \in 1..Len(SigOrder) : ShutdownProvider(i)
    \/ ShutdownEnd
    \/ ReadinessHandler
    \/ HealthHandler

SpecProbe == Init /\ [][NextProbe]_vars

\* ForceFlush called before and after Init.
NextFlush ==
    \/ InitBegin
    \/ \E i \in 1..Len(SigOrder) : InitConstruct(i)
    \/ \E i \in 1..Len(SigOrder) : InitInstall(i)
    \/ InitCollectors
    \/ InitFinish
    \/ ForceFlush

SpecFlush == Init /\ [][NextFlush]_vars

\* ShouldExclude asked of one matcher about one path.
InitMatcher ==
    /\ NewAgent(DefaultConfig)
    /\ ObsInit
    /\ HelperInit
    /\ LibInit
    /\ TaskIdle
    /\ RwIdle
    /\ ScrubIdle
    /\ MatcherInit

NextMatcher == CallShouldExclude

SpecMatcher == InitMatcher /\ [][NextMatcher]_vars

\* ------------------------------------------------------------ properties
\* C1: GetTracer and GetMeter never hand out a nil handle, in any state of
\* the agent; before the first Init call and on a disabled agent what they
\* hand out is the no-op implementation, and using it records nothing.
C1_AccessorsNeverNil ==
    /\ ~panicked
    /\ lastHandle.kind \in {"none", "noop", "real"}
    /\ GetTracer("app").h.kind \in {"noop", "real"}
    /\ \A n \in MeterNames : GetMeter(n).h.kind \in {"noop", "real"}
    /\ (initCalls = 0 \/ ~config.Enabled) =>
          /\ ~sideEffect
          /\ lastHandle.kind \in {"none", "noop"}
          /\ GetTracer("app").h = NoopHandle
          /\ \A n \in MeterNames : GetMeter(n).h = NoopHandle

\* A disabled agent that went through Init and Shutdown, on which GetMeter
\* was then called and returned the no-op meter.
C1_Witness ==
    /\ ~config.Enabled
    /\ initialized
    /\ sdResult.val = "nil"
    /\ lastHandle = [op |-> "GetMeter", kind |-> "noop"]

\* C2: an Init call on an agent that is already initialized returns
\* ErrAlreadyInitialized and changes nothing of the agent: flags, provider
\* fields, process-wide providers, caches and collector stay as they were.
C2_DoubleInitRejected ==
    [][(initialized /\ initCalls' = initCalls + 1) =>
          /\ initResult' = [val |-> ErrAlreadyInitialized, call |-> initCalls']
          /\ UNCHANGED agentVars]_vars

\* A second Init call on a running agent with a trace provider got
\* ErrAlreadyInitialized.
C2_Witness ==
    /\ initResult = [val |-> ErrAlreadyInitialized, call |-> 2]
    /\ running
    /\ tracerProvider # Nil
    /\ globalProvider["traces"] = tracerProvider

\* C3: over all Shutdown calls made on an agent, the collector's stop channel
\* is closed at most once and each provider's Shutdown is invoked at most once.
C3_TeardownAtMostOnce ==
    /\ collectorStops <= 1
    /\ \A s \in Signals : teardowns[s] <= 1

\* C4: a Shutdown of an initialized agent in which a teardown returned an
\* error has, once it returns, attempted the teardown of every provider the
\* agent holds, set running to false and returned nil.
C4_ShutdownLogsAndContinues ==
    (sdResult.failed /\ sdResult.val # "pending") =>
        /\ sdResult.val = "nil"
        /\ sdResult.attempted = {s \in Signals : provider[s] # Nil}
        /\ ~running
        /\ mu # "Shutdown"

\* The trace provider's teardown (at least) failed, all three providers were
\* torn down and Shutdown returned nil.
C4_Witness ==
    /\ sdResult.failed
    /\ sdResult.val = "nil"
    /\ sdResult.attempted = Signals
    /\ teardowns["traces"] = 1
    /\ ~running

\* C5: a Shutdown that is under way can always take its next step, whatever
\* the teardown calls do, so that it reaches its return.
C5_ShutdownNeverStuck ==
    mu = "Shutdown" =>
        ENABLED (ShutdownStopCollector
                   \/ (\E i \in 1..Len(SigOrder) : ShutdownProvider(i))
                   \/ ShutdownEnd)

\* C6: on an agent whose configuration has Enabled = false, Init returns nil
\* and marks the agent initialized, no provider is built or installed, no
\* collector exists, and the agent is not running then or later.
C6_DisabledInit ==
    ~config.Enabled =>
        /\ ~running
        /\ \A s \in Signals : provider[s] = Nil /\ globalProvider[s] = Nil
        /\ ~collector.exists
        /\ ~helperGlobal
        /\ initCalls >= 1 => initialized
        /\ initResult.call = 1 => initResult.val = "nil"

\* A disabled agent after its Init returned nil and a later Shutdown ran.
C6_Witness ==
    /\ ~config.Enabled
    /\ initResult = [val |-> "nil", call |-> 1]
    /\ initialized
    /\ sdResult.val = "nil"
    /\ ~sdResult.noop

\* C7: on an enabled agent with an empty service name every Init call returns
\* ErrMissingServiceName, no provider is built or installed, and the agent
\* stays uninitialized and not running.
C7_MissingServiceName ==
    (config.Enabled /\ config.ServiceName = "") =>
        /\ ~initialized
        /\ ~running
        /\ mu # "Init"
        /\ \A s \in Signals : provider[s] = Nil /\ globalProvider[s] = Nil
        /\ ~collector.exists
        /\ initCalls >= 1 => initResult.val = ErrMissingServiceName

\* Init was called on an enabled agent without a service name and returned.
C7_Witness ==
    /\ config.Enabled
    /\ config.ServiceName = ""
    /\ config.Signal["traces"]
    /\ initResult = [val |-> ErrMissingServiceName, call |-> 1]

\* C8: when Init has returned because the provider of a signal could not be
\* built, the error names that signal, the providers this Init built for the
\* enabled signals earlier in the order are still the agent's and the
\* process-wide providers, the failing signal's field is nil, and the agent
\* is neither initialized nor running.
C8_ConstructionFailureKeepsEarlier ==
    \A i \in 1..Len(SigOrder) :
        (mu = "free" /\ initResult.val = CreateErr(SigOrder[i])) =>
            /\ config.Signal[SigOrder[i]]
            /\ provider[SigOrder[i]] = Nil
            /\ \A j \in 1..(i - 1) :
                  config.Signal[SigOrder[j]] =>
                      /\ provider[SigOrder[j]] = initResult.call
                      /\ globalProvider[SigOrder[j]] = initResult.call
            /\ ~initialized
            /\ ~running
            /\ ~helperGlobal

\* Init failed on the log provider after it had built and installed the
\* trace and metric providers.
C8_Witness ==
    /\ mu = "free"
    /\ initResult.val = CreateErr("logs")
    /\ globalProvider["traces"] = initResult.call
    /\ globalProvider["metrics"] = initResult.call
    /\ ~initialized

C10_SingleInstrumentPerKey ==
    \A k \in Kinds, key \in Keys :
        Cardinality({x \in recorded[k][key] : x.prov # Nil}) <= 1

\* C11: every lazyTracer.Start call delegates to the process-wide tracer
\* provider that is installed at the moment of that call, whatever provider
\* earlier calls found.
C11_LazyStartUsesCurrentProvider ==
    [][lazyUsed' # lazyUsed => lazyUsed' = Append(lazyUsed, globalProvider["traces"])]_vars

\* A Start call made before Init found the no-op provider, a later one the
\* provider Init installed.
C11_Witness ==
    /\ Len(lazyUsed) >= 2
    /\ lazyUsed[1] = Nil
    /\ lazyUsed[Len(lazyUsed)] # Nil
    /\ lazyUsed[Len(lazyUsed)] = globalProvider["traces"]

\* C12: however many goroutines make the first requests of a handler, the
\* one-time setup runs once, and no request gets past lazyInit before the
\* setup has built the scrubber, the tracer and the instruments.
C12_SetupOnceBeforeUse ==
    /\ setupCount <= 1
    /\ ~usedUnbuilt
    /\ \A t \in Threads :
          gpc[t].pc \in {"use", "served"} =>
              initOnce = "done" /\ ginState.built /\ setupCount = 1

\* Two requests were served, one of which arrived while the other was running
\* the setup and had to wait for it.
C12_Witness ==
    /\ setupCount = 1
    /\ \E t1, t2 \in Threads :
          /\ t1 # t2
          /\ gpc[t1] = GinAt("served", FALSE)
          /\ gpc[t2] = GinAt("served", TRUE)

\* C13: whatever Record calls were made, Status(signal) is Healthy while the
\* signal has fewer than 3 failures in a row, Degraded from 3 up to 9, and
\* Unhealthy from 10 on; a signal never recorded is Healthy.
C13_StatusByThresholds ==
    \A x \in Signals :
        /\ failuresSince[x] < 3 => Status(x) = ExporterHealthy
        /\ (failuresSince[x] >= 3 /\ failuresSince[x] < 10) => Status(x) = ExporterDegraded
        /\ failuresSince[x] >= 10 => Status(x) = ExporterUnhealthy
        /\ lastEvent[x].op = "none" => Status(x) = ExporterHealthy

\* One signal at exactly 3 failures and Degraded, one at exactly 10 and
\* Unhealthy, one never recorded.
C13_Witness ==
    /\ failuresSince["traces"] = 3 /\ Status("traces") = ExporterDegraded
    /\ failuresSince["metrics"] = 10 /\ Status("metrics") = ExporterUnhealthy
    /\ lastEvent["logs"].op = "none" /\ "logs" \notin DOMAIN consecutiveFailures

\* C14: a signal's counter always equals the number of RecordFailure calls
\* made on it since its last RecordSuccess, and right after a RecordSuccess it
\* is zero and the signal Healthy, however many failures came before.
C14_SuccessResets ==
    \A x \in Signals :
        /\ Failures(consecutiveFailures, x) = failuresSince[x]
        /\ lastEvent[x].op = "success" =>
              /\ Failures(consecutiveFailures, x) = 0
              /\ x \in DOMAIN consecutiveFailures
              /\ Status(x) = ExporterHealthy

\* RecordSuccess was called on a signal that had 10 failures in a row.
C14_Witness ==
    /\ lastEvent["traces"] = Event("success", 10)
    /\ Status("traces") = ExporterHealthy

\* The greatest of a non-empty set of statuses.
WorstOf(S) == CHOOSE v \in S : \A w \in S : w <= v

\* C15: OverallStatus is the worst status (Healthy < Degraded < Unhealthy)
\* among the tracked signals, and Healthy when no signal is tracked.
C15_OverallIsWorst ==
    /\ DOMAIN consecutiveFailures = {} => OverallStatus = ExporterHealthy
    /\ DOMAIN consecutiveFailures # {} =>
          OverallStatus = WorstOf({Status(x) : x \in DOMAIN consecutiveFailures})
    /\ \A x \in Signals : OverallStatus >= Status(x)

\* Three tracked signals, one of each status; the overall status is Unhealthy.
C15_Witness ==
    /\ DOMAIN consecutiveFailures = Signals
    /\ {Status(x) : x \in Signals} = {ExporterHealthy, ExporterDegraded, ExporterUnhealthy}
    /\ OverallStatus = ExporterUnhealthy

\* The two Record operations as functions of the map.
RecordOps == {"success", "failure"}
ApplyRecord(op, m, x) ==
    IF op = "success" THEN RecordSuccessOn(m, x) ELSE RecordFailureOn(m, x)

\* C16: from any tracker state, a Record call on one signal leaves the
\* counter and the status of every other signal as they were, and two Record
\* calls on different signals give the same map in either order.
C16_SignalsIndependent ==
    \A x, y \in Signals : \A f, g \in RecordOps :
        x # y =>
            /\ Failures(ApplyRecord(f, consecutiveFailures, x), y)
                  = Failures(consecutiveFailures, y)
            /\ StatusOf(Failures(ApplyRecord(f, consecutiveFailures, x), y)) = Status(y)
            /\ ApplyRecord(g, ApplyRecord(f, consecutiveFailures, x), y)
                  = ApplyRecord(f, ApplyRecord(g, consecutiveFailures, y), x)

\* Failures were recorded on one signal and a success on another while the
\* third was never touched, and each counter shows its own history only.
C16_Witness ==
    /\ lastEvent["traces"].op = "failure" /\ Failures(consecutiveFailures, "traces") = 4
    /\ lastEvent["metrics"] = Event("success", 2) /\ Failures(consecutiveFailures, "metrics") = 0
    /\ DOMAIN consecutiveFailures = {"traces", "metrics"}

\* A Shutdown of the initialized agent has run to its end.
ShutdownCompleted == sdResult.val = "nil" /\ ~sdResult.noop

\* C17: whenever ReadinessCheck can answer (neither Init nor Shutdown holds
\* the lock) it is true exactly when the agent is initialized and running,
\* which is exactly after an Init of an enabled agent has succeeded and
\* before a Shutdown has completed.
C17_ReadinessIsInitializedAndRunning ==
    /\ ReadinessCheck <=> (initialized /\ IsRunning)
    /\ mu = "free" =>
          (ReadinessCheck <=> /\ config.Enabled
                              /\ \E c \in 1..initCalls : initResult = [val |-> "nil", call |-> c]
                                    \/ (helperGlobal /\ initResult.val = ErrAlreadyInitialized)
                              /\ ~ShutdownCompleted)
    /\ (lastProbe.op = "ready" /\ lastProbe.answer = "true") => helperGlobal

\* The readiness handler answered 200 on a running agent.
C17_Witness ==
    /\ lastProbe = Probe("ready", "200", "true")
    /\ ReadinessCheck
    /\ running
    /\ shutdownCalls >= 1

\* C18: on an agent disabled by configuration, once Init has returned the
\* readiness probe reports ready and the health probe reports ok.
C18_DisabledAgentReady ==
    (~config.Enabled /\ initialized) =>
        /\ ReadinessCheck
        /\ HealthCheck.Status = "ok"
        /\ lastProbe.op = "ready" => lastProbe.answer = "true"

\* C19: a ForceFlush on an initialized agent flushes every provider the agent
\* holds, whatever the earlier flushes returned; on an agent that is not
\* initialized it flushes nothing and returns nil.
C19_ForceFlushAttemptsAll ==
    /\ (flushResult.val # "none" /\ flushResult.initialized) =>
          flushResult.attempted = {x \in Signals : provider[x] # Nil}
    /\ (flushResult.val # "none" /\ ~flushResult.initialized) =>
          (flushResult.val = "nil" /\ flushResult.attempted = {})

\* str starts with prefix.
StartsWith(str, prefix) == \E k \in 0..Len(str) : SubSeq(str, 1, k) = prefix

\* name matches the glob pattern: name can be cut into one piece per pattern
\* character, a literal's piece being that character and a star's piece any
\* run of characters without a '/'.
GlobMatches(pattern, name) ==
    \E cut \in [0..Len(pattern) -> 0..Len(name)] :
        /\ cut[0] = 0
        /\ cut[Len(pattern)] = Len(name)
        /\ \A i \in 1..Len(pattern) :
              /\ cut[i - 1] <= cut[i]
              /\ IF pattern[i] = "*"
                 THEN \A j \in (cut[i - 1] + 1)..cut[i] : name[j] # "/"
                 ELSE cut[i] = cut[i - 1] + 1 /\ name[cut[i]] = pattern[i]

\* The configuration lists nothing.
EmptyConfig(cfg) == cfg.ExactPaths = <<>> /\ cfg.PrefixPaths = <<>> /\ cfg.Patterns = <<>>

\* C20 (as the code has it): ShouldExclude(p) is true exactly when the
\* matcher is not nil and p is a configured exact path, or starts with a
\* configured non-empty prefix, or matches a configured non-empty glob
\* pattern whose stars do not cross '/'; a nil matcher and a matcher built
\* from an empty configuration answer false for every path.
C20_ShouldExcludeIffLayerMatchesNonEmpty ==
    excluded \in {"yes", "no"} =>
        /\ excluded = "yes" <=>
              /\ ~routeMatcher.nil
              /\ \/ requestPath \in Elems(routeMatcher.cfg.ExactPaths)
                 \/ \E p \in Elems(routeMatcher.cfg.PrefixPaths) :
                       p # <<>> /\ StartsWith(requestPath, p)
                 \/ \E g \in Elems(routeMatcher.cfg.Patterns) :
                       g # <<>> /\ GlobMatches(g, requestPath)
        /\ (routeMatcher.nil \/ EmptyConfig(routeMatcher.cfg)) => excluded = "no"

\* "/aa" is excluded by the prefix "/a" alone.
C20_Witness ==
    /\ excluded = "yes"
    /\ requestPath = <<"/", "a", "a">>
    /\ routeMatcher.cfg.PrefixPaths = << <<"/", "a">> >>
    /\ routeMatcher.cfg.ExactPaths = <<>>
    /\ routeMatcher.cfg.Patterns = <<>>

\* C20 (as stated): ShouldExclude(p) is true exactly when p is a configured
\* exact path, or starts with a configured prefix, or matches a configured
\* glob pattern; a nil or empty matcher answers false.
C20_ShouldExcludeIffLayerMatches ==
    excluded \in {"yes", "no"} =>
        /\ excluded = "yes" <=>
              /\ ~routeMatcher.nil
              /\ \/ requestPath \in Elems(routeMatcher.cfg.ExactPaths)
                 \/ \E p \in Elems(routeMatcher.cfg.PrefixPaths) : StartsWith(requestPath, p)
                 \/ \E g \in Elems(routeMatcher.cfg.Patterns) : GlobMatches(g, requestPath)
        /\ (routeMatcher.nil \/ EmptyConfig(routeMatcher.cfg)) => excluded = "no"

\* ------------------------------------------------ provider: HTTPScrubber
\* Strings are sequences of one-character strings. MaxTextLen is the length
\* of the longest query string and body given to the scrubber.
MaxTextLen == 4

\* strings.ToLower, on the letters used here.
LowerChar(c) == IF c = "S" THEN "s" ELSE IF c = "K" THEN "k" ELSE c
ToLower(s) == [i \in 1..Len(s) |-> LowerChar(s[i])]

\* strings.Join
RECURSIVE Join(_, _)
Join(parts, sep) ==
    IF parts = <<>> THEN <<>>
    ELSE IF Len(parts) = 1 THEN parts[1]
    ELSE parts[1] \o sep \o Join(Tail(parts), sep)

\* strings.IndexByte, counted from 1; 0 when c does not occur in s.
IndexByte(s, c) ==
    IF \E i \in 1..Len(s) : s[i] = c
    THEN CHOOSE i \in 1..Len(s) : s[i] = c /\ \A j \in 1..(i - 1) : s[j] # c
    ELSE 0

\* strings.Split(s, c)
RECURSIVE Split(_, _)
Split(s, c) ==
    LET i == IndexByte(s, c)
    IN IF i = 0 THEN <<s>>
       ELSE <<SubSeq(s, 1, i - 1)>> \o Split(SubSeq(s, i + 1, Len(s)), c)

\* A split at every separator instead of the first one only.
SplitEvery(s, c) == Split(s, c)

\* strings.SplitN(s, c, 2)
SplitN2(s, c) ==
    LET i == IndexByte(s, c)
    IN IF i = 0 THEN <<s>>
       ELSE <<SubSeq(s, 1, i - 1), SubSeq(s, i + 1, Len(s))>>

\* Regexp.MatchString for a pattern without metacharacters: the pattern
\* occurs somewhere in the text.
MatchString(re, s) ==
    \E i \in 0..(Len(s) - Len(re)) : SubSeq(s, i + 1, i + Len(re)) = re

\* Regexp.ReplaceAllString for such a pattern: the leftmost occurrences,
\* not overlapping, are replaced.
RECURSIVE ReplaceAllString(_, _, _)
ReplaceAllString(re, s, repl) ==
    IF Len(s) < Len(re) THEN s
    ELSE IF SubSeq(s, 1, Len(re)) = re
         THEN repl \o ReplaceAllString(re, SubSeq(s, Len(re) + 1, Len(s)), repl)
         ELSE <<s[1]>> \o ReplaceAllString(re, Tail(s), repl)

DefaultRedacted == <<"[", "R", "E", "D", "A", "C", "T", "E", "D", "]">>
TruncatedMarker == <<".", ".", ".", "[", "t", "r", "u", "n", "c", "a", "t", "e", "d", "]">>

\* NewHTTPScrubber and init: the header names are lower-cased, the patterns
\* are compiled only when scrubbing is enabled.
NewHTTPScrubber(httpCfg, scrubCfg) ==
    [httpCfg |-> httpCfg,
     scrubCfg |-> scrubCfg,
     sensitiveHeaderSet |-> {ToLower(httpCfg.SensitiveHeaders[i]) :
                                i \in 1..Len(httpCfg.SensitiveHeaders)},
     compiledPatterns |-> IF scrubCfg.Enabled THEN scrubCfg.SensitivePatterns ELSE <<>>]

redactedValue(s) ==
    IF s.scrubCfg.RedactedValue # <<>> THEN s.scrubCfg.RedactedValue ELSE DefaultRedacted

\* nil (the empty set here) for an empty list.
buildAllowedSet(allowed) == {ToLower(allowed[i]) : i \in 1..Len(allowed)}

isKeyMatch(s, key) ==
    \E i \in 1..Len(s.compiledPatterns) : MatchString(s.compiledPatterns[i], ToLower(key))

\* A scrubber whose header redaction follows the scrub flag.
IsSensitiveHeaderWhenEnabled(s, lower) ==
    s.scrubCfg.Enabled /\ lower \in s.sensitiveHeaderSet

\* The lookup in sensitiveHeaderSet.
IsSensitiveHeader(s, lower) == lower \in s.sensitiveHeaderSet

\* ScrubHeaders: the maps the loop can produce. Two names that differ in
\* case only write the same key of the result, and the one the map
\* iteration visits last stays.
ScrubHeaders(s, headers, allowed) ==
    LET allowedSet == buildAllowedSet(allowed)
        kept == {name \in DOMAIN headers :
                    Cardinality(allowedSet) > 0 => ToLower(name) \in allowedSet}
        value(name) == IF IsSensitiveHeader(s, ToLower(name))
                       THEN redactedValue(s)
                       ELSE Join(headers[name], <<",", " ">>)
        keys == {ToLower(name) : name \in kept}
    IN {r \in [keys -> {value(name) : name \in kept}] :
           \A l \in keys : \E name \in kept : ToLower(name) = l /\ r[l] = value(name)}

ScrubQueryString(s, rawQuery) ==
    IF rawQuery = <<>> THEN <<>>
    ELSE IF ~s.scrubCfg.Enabled THEN rawQuery
    ELSE LET parts == Split(rawQuery, "&")
             scrub(part) ==
                 LET kv == SplitN2(part, "=")
                 IN IF Len(kv) # 2 THEN part
                    ELSE IF isKeyMatch(s, kv[1])
                         THEN kv[1] \o <<"=">> \o redactedValue(s)
                         ELSE part
         IN Join([i \in 1..Len(parts) |-> scrub(parts[i])], <<"&">>)

\* The loop over compiledPatterns in ScrubBody.
RECURSIVE ReplaceEach(_, _, _)
ReplaceEach(patterns, body, repl) ==
    IF patterns = <<>> THEN body
    ELSE ReplaceEach(Tail(patterns), ReplaceAllString(patterns[1], body, repl), repl)

\* A ScrubBody that redacts first and truncates what that gives.
ScrubBodyRedactFirst(s, body, maxSize) ==
    LET red == IF s.scrubCfg.Enabled
               THEN ReplaceEach(s.compiledPatterns, body, redactedValue(s))
               ELSE body
    IN IF body = <<>> THEN <<>>
       ELSE IF maxSize > 0 /\ Len(red) > maxSize
            THEN SubSeq(red, 1, maxSize) \o TruncatedMarker
            ELSE red

ScrubBody(s, body, maxSize) ==
    LET cut == IF maxSize > 0 /\ Len(body) > maxSize
               THEN SubSeq(body, 1, maxSize) \o TruncatedMarker
               ELSE body
    IN IF body = <<>> THEN <<>>
       ELSE IF s.scrubCfg.Enabled
            THEN ReplaceEach(s.compiledPatterns, cut, redactedValue(s))
            ELSE cut

\* The calls made, one per behaviour.
ScrubReturn(hdrs, text) == [done |-> TRUE, headers |-> hdrs, text |-> text]
NotCalled == [done |-> FALSE, headers |-> <<>>, text |-> <<>>]

CallScrubHeaders ==
    /\ scrubCall.op = "ScrubHeaders"
    /\ ~scrubResult.done
    /\ \E r \in ScrubHeaders(httpScrubber, scrubCall.headers, scrubCall.allowed) :
          scrubResult' = ScrubReturn(r, <<>>)
    /\ UNCHANGED <<httpScrubber, scrubCall, scrubProcessor, span>>
    /\ UNCHANGED <<agentVars, obsVars, helperVars>>
    /\ UNCHANGED <<lazyVars, ginVars, healthVars, probeVars, matcherVars, taskVars, rwVars>>

CallScrubQueryString ==
    /\ scrubCall.op = "ScrubQueryString"
    /\ ~scrubResult.done
    /\ scrubResult' = ScrubReturn(<<>>, ScrubQueryString(httpScrubber, scrubCall.text))
    /\ UNCHANGED <<httpScrubber, scrubCall, scrubProcessor, span>>
    /\ UNCHANGED <<agentVars, obsVars, helperVars>>
    /\ UNCHANGED <<lazyVars, ginVars, healthVars, probeVars, matcherVars, taskVars, rwVars>>

CallScrubBody ==
    /\ scrubCall.op = "ScrubBody"
    /\ ~scrubResult.done
    /\ scrubResult' = ScrubReturn(<<>>, ScrubBody(httpScrubber, scrubCall.text, scrubCall.maxSize))
    /\ UNCHANGED <<httpScrubber, scrubCall, scrubProcessor, span>>
    /\ UNCHANGED <<agentVars, obsVars, helperVars>>
    /\ UNCHANGED <<lazyVars, ginVars, healthVars, probeVars, matcherVars, taskVars, rwVars>>

\* The configurations and arguments tried.
Texts(chars, n) == UNION {[1..k -> chars] : k \in 0..n}
PatternLists == {<<>>, << <<"s">> >>, << <<"S">> >>, << <<"k">>, <<"s", "k">> >>}
RedactedValues == {<<>>, <<"*">>}
HTTPScrubConfigs ==
    [Enabled : BOOLEAN, SensitiveKeys : {<<>>}, SensitivePatterns : PatternLists,
     RedactedValue : RedactedValues, DBStatementMaxLength : {0}]
HeaderNames == {<<"s">>, <<"S">>, <<"k">>}
HeaderValues == {<< <<"v">> >>, << <<"v">>, <<"w">> >>}
HeaderMaps == UNION {[d -> HeaderValues] : d \in SUBSET HeaderNames}
HeaderLists == {<<>>, << <<"S">> >>, << <<"s">> >>, << <<"k">>, <<"S">> >>}
BodySizes == {0 - 1, 0, 1, 2, 3}

ScrubCall(op, hdrs, allowed, text, maxSize) ==
    [op |-> op, headers |-> hdrs, allowed |-> allowed, text |-> text, maxSize |-> maxSize]

HTTPScrubInit ==
    /\ \E scrubCfg \in HTTPScrubConfigs :
          \/ /\ scrubCfg.SensitivePatterns = <<>>
             /\ \E sens \in HeaderLists :
                   httpScrubber = NewHTTPScrubber([SensitiveHeaders |-> sens], scrubCfg)
             /\ \E hdrs \in HeaderMaps, allowed \in HeaderLists :
                   scrubCall = ScrubCall("ScrubHeaders", hdrs, allowed, <<>>, 0)
          \/ /\ httpScrubber = NewHTTPScrubber([SensitiveHeaders |-> <<>>], scrubCfg)
             /\ \/ \E raw \in Texts({"s", "S", "k", "&", "="}, MaxTextLen) :
                      scrubCall = ScrubCall("ScrubQueryString", <<>>, <<>>, raw, 0)
                \/ \E body \in Texts({"s", "S", "k"}, MaxTextLen), maxSize \in BodySizes :
                      scrubCall = ScrubCall("ScrubBody", <<>>, <<>>, body, maxSize)
    /\ scrubResult = NotCalled

InitHTTPScrub ==
    /\ NewAgent(DefaultConfig)
    /\ ObsInit
    /\ HelperInit
    /\ LibInit
    /\ TaskIdle
    /\ RwIdle
    /\ MatcherIdle
    /\ HTTPScrubInit
    /\ scrubProcessor = "idle"
    /\ span = "idle"

NextHTTPScrub ==
    \/ CallScrubHeaders
    \/ CallScrubQueryString
    \/ CallScrubBody

SpecHTTPScrub == InitHTTPScrub /\ [][NextHTTPScrub]_vars

\* The redaction literal a scrub configuration asks for.
RedactionLiteral(scrubCfg) ==
    IF scrubCfg.RedactedValue = <<>> THEN DefaultRedacted ELSE scrubCfg.RedactedValue

\* l, a lower-cased name, is on the list when case is ignored.
Listed(l, list) == \E i \in 1..Len(list) : ToLower(list[i]) = l

\* C21: ScrubHeaders gives every header whose lower-cased name is on the
\* sensitive-header list the redaction literal as its value, whatever the
\* scrub-enabled flag and the header's value are; with a non-empty allow-list
\* the result holds exactly the headers that are on it, case ignored, and
\* without one it holds every header; a header that is not sensitive keeps
\* its values, joined by ", ".
C21_SensitiveHeadersRedacted ==
    (scrubCall.op = "ScrubHeaders" /\ scrubResult.done) =>
        LET h == scrubCall.headers
            al == scrubCall.allowed
            r == scrubResult.headers
            sensitive(l) == Listed(l, httpScrubber.httpCfg.SensitiveHeaders)
            passes(name) == al = <<>> \/ Listed(ToLower(name), al)
            flipped == NewHTTPScrubber(httpScrubber.httpCfg,
                           [httpScrubber.scrubCfg EXCEPT !.Enabled = ~@])
        IN /\ DOMAIN r = {ToLower(name) : name \in {m \in DOMAIN h : passes(m)}}
           /\ \A l \in DOMAIN r :
                 IF sensitive(l)
                 THEN r[l] = RedactionLiteral(httpScrubber.scrubCfg)
                 ELSE \E name \in DOMAIN h :
                         ToLower(name) = l /\ r[l] = Join(h[name], <<",", " ">>)
           /\ r \in ScrubHeaders(flipped, h, al)

\* Scrubbing is disabled, the header S is sensitive through the list entry
\* s, and the allow-list lets S through and drops k.
C21_Witness ==
    /\ scrubCall.op = "ScrubHeaders"
    /\ scrubResult.done
    /\ ~httpScrubber.scrubCfg.Enabled
    /\ httpScrubber.httpCfg.SensitiveHeaders = << <<"s">> >>
    /\ DOMAIN scrubCall.headers = {<<"S">>, <<"k">>}
    /\ scrubCall.allowed = << <<"S">> >>
    /\ DOMAIN scrubResult.headers = {<<"s">>}
    /\ scrubResult.headers[<<"s">>] = DefaultRedacted

\* The key a segment has when it is a key=value segment.
HasValue(seg) == \E i \in 1..Len(seg) : seg[i] = "="
KeyOf(seg) == SubSeq(seg, 1, IndexByte(seg, "=") - 1)
KeyMatches(scrubCfg, key) ==
    \E i \in 1..Len(scrubCfg.SensitivePatterns) :
        MatchString(scrubCfg.SensitivePatterns[i], ToLower(key))

C23_BodyTruncatedThenRedacted ==
    (scrubCall.op = "ScrubBody" /\ scrubResult.done) =>
        LET cfg == httpScrubber.scrubCfg
            body == scrubCall.text
            maxSize == scrubCall.maxSize
            out == scrubResult.text
            cut == IF maxSize > 0 /\ Len(body) > maxSize
                   THEN SubSeq(body, 1, maxSize) \o TruncatedMarker
                   ELSE body
        IN /\ body = <<>> => out = <<>>
           /\ ~cfg.Enabled =>
                 /\ out = cut
                 /\ maxSize > 0 => Len(out) <= maxSize + Len(TruncatedMarker)
           /\ cfg.Enabled =>
                 out = ReplaceEach(cfg.SensitivePatterns, cut, RedactionLiteral(cfg))
           /\ (cfg.Enabled /\ Len(cfg.SensitivePatterns) = 1 /\ cfg.RedactedValue = <<"*">>) =>
                 ~MatchString(cfg.SensitivePatterns[1], out)

\* Scrubbing is enabled with the pattern s; the body sks is cut after its
\* first byte and the s that is left is redacted.
C23_Witness ==
    /\ scrubCall.op = "ScrubBody"
    /\ scrubResult.done
    /\ httpScrubber.scrubCfg.Enabled
    /\ httpScrubber.scrubCfg.SensitivePatterns = << <<"s">> >>
    /\ httpScrubber.scrubCfg.RedactedValue = <<"*">>
    /\ scrubCall.text = <<"s", "k", "s">>
    /\ scrubCall.maxSize = 1
    /\ scrubResult.text = <<"*">> \o TruncatedMarker

\* ---------------------------------------------- provider: ScrubProcessor
DbStatement == <<"d", "b", ".", "s", "t", "a", "t", "e", "m", "e", "n", "t">>
DbQueryText == <<"d", "b", ".", "q", "u", "e", "r", "y", ".", "t", "e", "x", "t">>
dbKeys == {DbStatement, DbQueryText}
Ellipsis == <<".", ".", ".">>

\* NewScrubProcessor and init: the literal keys as configured, the patterns
\* compiled whether scrubbing is enabled or not.
NewScrubProcessor(cfg) ==
    [config |-> cfg,
     sensitiveKeys |-> {cfg.SensitiveKeys[i] : i \in 1..Len(cfg.SensitiveKeys)},
     compiledPatterns |-> cfg.SensitivePatterns]

\* An isSensitive that looks the lower-cased key up in sensitiveKeys.
isSensitiveFolded(sp, key) ==
    \/ ToLower(key) \in sp.sensitiveKeys
    \/ \E i \in 1..Len(sp.compiledPatterns) :
          MatchString(sp.compiledPatterns[i], ToLower(key))

isSensitive(sp, key) ==
    \/ key \in sp.sensitiveKeys
    \/ \E i \in 1..Len(sp.compiledPatterns) :
          MatchString(sp.compiledPatterns[i], ToLower(key))

truncateDBStatements(sp, attrs) ==
    [key \in DOMAIN attrs |->
        IF key \in dbKeys /\ Len(attrs[key]) > sp.config.DBStatementMaxLength
        THEN SubSeq(attrs[key], 1, sp.config.DBStatementMaxLength) \o Ellipsis
        ELSE attrs[key]]

\* OnStart: the attributes of the span when it returns.
OnStart(sp, attrs) ==
    LET redacted == IF sp.config.RedactedValue = <<>> THEN DefaultRedacted
                    ELSE sp.config.RedactedValue
        scrubbed == [key \in DOMAIN attrs |->
                        IF isSensitive(sp, key) THEN redacted ELSE attrs[key]]
    IN IF ~sp.config.Enabled THEN attrs
       ELSE IF sp.config.DBStatementMaxLength > 0
            THEN truncateDBStatements(sp, scrubbed)
            ELSE scrubbed

\* A span starts: the processor is given the attributes set so far.
SpanStart ==
    /\ ~span.started
    /\ span' = [span EXCEPT !.started = TRUE, !.attrs = OnStart(scrubProcessor, span.set)]
    /\ UNCHANGED <<httpScrubber, scrubCall, scrubResult, scrubProcessor>>
    /\ UNCHANGED <<agentVars, obsVars, helperVars>>
    /\ UNCHANGED <<lazyVars, ginVars, healthVars, probeVars, matcherVars, taskVars, rwVars>>

\* The configurations and spans tried: the keys s, S, k with the value v and
\* a database statement of every length up to MaxTextLen.
KeyLists == {<<>>, << <<"s">> >>, << <<"S">> >>, <<DbStatement>>}
SpanPatternLists == {<<>>, << <<"s">> >>, << <<"S">> >>}
DBStatementMaxLengths == {0 - 1, 0, 1, 2}
ScrubConfigs ==
    [Enabled : BOOLEAN, SensitiveKeys : KeyLists, SensitivePatterns : SpanPatternLists,
     RedactedValue : RedactedValues, DBStatementMaxLength : DBStatementMaxLengths]
Statement(n) == [i \in 1..n |-> <<"v", "w", "x", "y", "z", "u">>[i]]
PlainAttrs == UNION {[d -> {<<"v">>}] : d \in SUBSET {<<"s">>, <<"S">>, <<"k">>}}
DbAttrs ==
    {<<>>} \cup {[d \in {key} |-> Statement(n)] : key \in dbKeys, n \in 0..MaxTextLen}
\* The union of two attribute sets with disjoint keys (a @@ b, with the empty
\* set of attributes written <<>>).
Attrs(a, b) ==
    [key \in DOMAIN a \cup DOMAIN b |-> IF key \in DOMAIN a THEN a[key] ELSE b[key]]

SpanInit ==
    /\ \E cfg \in ScrubConfigs : scrubProcessor = NewScrubProcessor(cfg)
    /\ \E a \in PlainAttrs, b \in DbAttrs :
          span = [set |-> Attrs(a, b), attrs |-> Attrs(a, b), started |-> FALSE]

InitSpanScrub ==
    /\ NewAgent(DefaultConfig)
    /\ ObsInit
    /\ HelperInit
    /\ LibInit
    /\ TaskIdle
    /\ RwIdle
    /\ MatcherIdle
    /\ httpScrubber = "idle"
    /\ scrubCall = "idle"
    /\ scrubResult = "idle"
    /\ SpanInit

NextSpanScrub == SpanStart

SpecSpanScrub == InitSpanScrub /\ [][NextSpanScrub]_vars

\* The length policy acts on this key of this span.
LengthPolicyActs(key) ==
    key \in dbKeys /\ scrubProcessor.config.DBStatementMaxLength > 0

\* What the started span holds under key when sens says which keys are
\* sensitive: the redaction literal for a sensitive key, the value that was
\* set for any other; nothing changes when scrubbing is disabled.
RedactedBy(sens(_)) ==
    LET cfg == scrubProcessor.config
    IN /\ DOMAIN span.attrs = DOMAIN span.set
       /\ ~cfg.Enabled => span.attrs = span.set
       /\ cfg.Enabled =>
             \A key \in DOMAIN span.set :
                 ~LengthPolicyActs(key) =>
                     span.attrs[key] = IF sens(key) THEN RedactionLiteral(cfg)
                                       ELSE span.set[key]

C25_DbStatementLengthPolicy ==
    (span.started /\ scrubProcessor.config.Enabled) =>
        LET cfg == scrubProcessor.config
            max == cfg.DBStatementMaxLength
        IN \A key \in DOMAIN span.set \cap dbKeys :
              LET base == IF isSensitive(scrubProcessor, key)
                          THEN RedactionLiteral(cfg) ELSE span.set[key]
              IN span.attrs[key] =
                    IF max > 0 /\ Len(base) > max THEN SubSeq(base, 1, max) \o Ellipsis
                    ELSE IF max < 0 THEN RedactionLiteral(cfg)
                    ELSE base

\* ------------------------------------------- collector: MetricCollector
\* Ticker firings the Collect loops serve.
MaxTicks == 2

\* MetricCollector.Start on a collector that is not running, a stopped one
\* included: running is set and one Collect goroutine is launched per
\* sub-collector that is not nil, on the stop channel that New made.
MetricCollectorStart ==
    /\ collector.exists
    /\ ~collector.running
    /\ collector.closed < 2
    /\ collector' = CollectorStart(collector)
    /\ tasks' = Launch(tasks)
    /\ UNCHANGED <<ctxDone, ticks>>
    /\ UNCHANGED <<config, mu, initialized, running, provider, globalProvider, helperGlobal,
                   tracers, meters, initPc, sdPc, sdBlocked>>
    /\ UNCHANGED <<obsVars, helperVars>>
    /\ UNCHANGED <<lazyVars, ginVars, healthVars, probeVars, matcherVars, scrubVars, rwVars>>

\* MetricCollector.Stop on a running collector: close(stopChan), running is
\* cleared.  A close of the closed channel panics, and nothing runs after
\* the panic.
MetricCollectorStop ==
    /\ collector.running
    /\ collector.closed < 2
    /\ collector' = CollectorStop(collector)
    /\ UNCHANGED taskVars
    /\ UNCHANGED <<config, mu, initialized, running, provider, globalProvider, helperGlobal,
                   tracers, meters, initPc, sdPc, sdBlocked>>
    /\ UNCHANGED <<obsVars, helperVars>>
    /\ UNCHANGED <<lazyVars, ginVars, healthVars, probeVars, matcherVars, scrubVars, rwVars>>

\* The caller cancels the context it gave to Start.
CancelContext ==
    /\ ~ctxDone
    /\ ctxDone' = TRUE
    /\ UNCHANGED <<tasks, ticks>>
    /\ UNCHANGED <<agentVars, obsVars, helperVars>>
    /\ UNCHANGED <<lazyVars, ginVars, healthVars, probeVars, matcherVars, scrubVars, rwVars>>

\* A Collect loop that has no case for the stop channel.
CollectReturnOnCancel(c) ==
    /\ tasks[c] = "running"
    /\ ctxDone
    /\ tasks' = [tasks EXCEPT ![c] = "exited"]
    /\ UNCHANGED <<ctxDone, ticks>>
    /\ UNCHANGED <<agentVars, obsVars, helperVars>>
    /\ UNCHANGED <<lazyVars, ginVars, healthVars, probeVars, matcherVars, scrubVars, rwVars>>

\* Collect: the select takes the case of ctx.Done() or of the stop channel,
\* and the goroutine returns.
CollectReturn(c) ==
    /\ tasks[c] = "running"
    /\ ctxDone \/ collector.closed > 0
    /\ tasks' = [tasks EXCEPT ![c] = "exited"]
    /\ UNCHANGED <<ctxDone, ticks>>
    /\ UNCHANGED <<agentVars, obsVars, helperVars>>
    /\ UNCHANGED <<lazyVars, ginVars, healthVars, probeVars, matcherVars, scrubVars, rwVars>>

\* Collect: the select takes the case of the ticker, the metrics are
\* recorded and the loop goes round.
CollectTick(c) ==
    /\ tasks[c] = "running"
    /\ ticks < MaxTicks
    /\ ticks' = ticks + 1
    /\ UNCHANGED <<tasks, ctxDone>>
    /\ UNCHANGED <<agentVars, obsVars, helperVars>>
    /\ UNCHANGED <<lazyVars, ginVars, healthVars, probeVars, matcherVars, scrubVars, rwVars>>

\* collector.New, with any of the sub-collectors nil.
MetricCollectorNew ==
    /\ ~collector.exists
    /\ collector' = NewCollector
    /\ tasks' \in [SubCollectors -> {"nil", "new"}]
    /\ UNCHANGED <<ctxDone, ticks>>
    /\ UNCHANGED <<config, mu, initialized, running, provider, globalProvider, helperGlobal,
                   tracers, meters, initPc, sdPc, sdBlocked>>
    /\ UNCHANGED <<obsVars, helperVars>>
    /\ UNCHANGED <<lazyVars, ginVars, healthVars, probeVars, matcherVars, scrubVars, rwVars>>

InitCollect ==
    /\ NewAgent(DefaultConfig)
    /\ ObsInit
    /\ HelperInit
    /\ LibInit
    /\ RwIdle
    /\ ScrubIdle
    /\ MatcherIdle
    /\ tasks = [c \in SubCollectors |-> "nil"]
    /\ ctxDone = FALSE
    /\ ticks = 0

NextCollect ==
    \/ MetricCollectorNew
    \/ MetricCollectorStart
    \/ MetricCollectorStop
    \/ CancelContext
    \/ \E c \in SubCollectors : CollectReturn(c)
    \/ \E c \in SubCollectors : CollectTick(c)

\* A goroutine that can run is run in the end, and a select with a closed
\* channel among its cases does not take the ticker for ever.
FairCollect == \A c \in SubCollectors : WF_vars(CollectReturn(c))

SpecCollect == InitCollect /\ [][NextCollect]_vars /\ FairCollect

\* C26: once MetricCollector.Stop has closed the stop channel, every Collect
\* goroutine that Start launched and that is still running exits in the end.
C26_TasksExitAfterStop ==
    \A c \in SubCollectors :
        (collector.closed > 0 /\ tasks[c] = "running") ~> (tasks[c] = "exited")

\* The four Collect goroutines served a tick, Stop closed the channel, the
\* context was never cancelled, and all four have exited.
C26_Witness ==
    /\ collector.closed = 1
    /\ ~ctxDone
    /\ ticks > 0
    /\ \A c \in SubCollectors : tasks[c] = "exited"

\* C27: while an Init call is between constructing the provider of a signal
\* and installing it as the process-wide provider, no GetTracer / GetMeter
\* call has handed out a tracer or meter of that provider: an accessor that
\* runs concurrently with Init returns the no-op until the install is done.
C27_NoHandleBeforeInstall ==
    \A i \in 1..Len(SigOrder) :
        (mu = "Init" /\ initPc = InitAt("install", i)) =>
            /\ SigOrder[i] = "traces" =>
                  \A n \in AllNames :
                      ~(tracers[n].kind = "real" /\ tracers[n].prov = tracerProvider)
            /\ SigOrder[i] = "metrics" =>
                  \A n \in AllNames :
                      ~(meters[n].kind = "real" /\ meters[n].prov = meterProvider)

\* C30: when a Shutdown call returns nil, every provider that an Init call
\* constructed and installed before it, an Init call that went on to fail
\* included, has had its Shutdown invoked.
C30_InstalledProvidersTornDown ==
    [][(sdResult'.val = "nil" /\ sdResult' # sdResult) =>
          \A s \in Signals :
              (provider[s] # Nil /\ globalProvider[s] = provider[s]) => teardowns'[s] > 0]_vars

\* --------------------------- provider: ExporterHealth under its RWMutex
\* Calls made on one tracker, from the goroutines of Threads.
MaxCalls == 3

TrackerSignals == {"traces", "metrics"}
TrackerOps == {"RecordSuccess", "RecordFailure", "Status", "SignalStatuses"}

\* sync.RWMutex: Lock is granted when no reader and no writer holds the
\* mutex; RLock is granted when no writer holds it and none waits in Lock
\* (a waiting writer holds back the readers that come after it).
Unlocked == [readers |-> 0, writer |-> 0, waiting |-> {}]
\* A Lock that is granted at once, whoever holds the mutex.
CanLockAlways(m) == TRUE
CanLock(m) == m.readers = 0 /\ m.writer = 0
CanRLock(m) == m.writer = 0 /\ m.waiting = {}

\* A goroutine: the call it is in (or made last), where it is in it, the
\* signal it works on, whether it is in the Status call that SignalStatuses
\* makes, the keys the range loop has left, the counter it read, and the
\* status it computed; seen is the counter the one-step tracker had when the
\* goroutine read its own.
NoCall ==
    [op |-> "none", pc |-> "idle", signal |-> "", inner |-> FALSE, todo |-> {},
     failures |-> 0, seen |-> 0, ret |-> ExporterHealthy]

TrackerInit ==
    /\ rw = Unlocked
    /\ hthread = [t \in Threads |-> NoCall]
    /\ linear = <<>>
    /\ calls = 0

\* A goroutine calls RecordSuccess, RecordFailure, Status or SignalStatuses
\* and reaches h.mu.Lock() or h.mu.RLock().
TrackerCall(t) ==
    /\ hthread[t].pc = "idle"
    /\ calls < MaxCalls
    /\ calls' = calls + 1
    /\ \E op \in TrackerOps, signal \in TrackerSignals :
          /\ op = "SignalStatuses" => signal = "traces"
          /\ hthread' = [hthread EXCEPT ![t] =
                [NoCall EXCEPT !.op = op,
                               !.signal = IF op = "SignalStatuses" THEN "" ELSE signal,
                               !.pc = IF op \in {"RecordSuccess", "RecordFailure"}
                                      THEN "lock" ELSE "rlock"]]
          /\ rw' = IF op \in {"RecordSuccess", "RecordFailure"}
                   THEN [rw EXCEPT !.waiting = @ \cup {t}] ELSE rw
    /\ UNCHANGED <<consecutiveFailures, failuresSince, lastEvent, linear>>
    /\ UNCHANGED <<agentVars, obsVars, helperVars>>
    /\ UNCHANGED <<lazyVars, ginVars, probeVars, matcherVars, scrubVars, taskVars>>

\* h.mu.Lock() returns; RecordFailure reads the counter it is to increment.
TrackerLock(t) ==
    /\ hthread[t].pc = "lock"
    /\ CanLock(rw)
    /\ rw' = [rw EXCEPT !.writer = t, !.waiting = @ \ {t}]
    /\ hthread' = [hthread EXCEPT
          ![t].pc = "write",
          ![t].failures = Failures(consecutiveFailures, hthread[t].signal)]
    /\ UNCHANGED <<consecutiveFailures, failuresSince, lastEvent, linear, calls>>
    /\ UNCHANGED <<agentVars, obsVars, helperVars>>
    /\ UNCHANGED <<lazyVars, ginVars, probeVars, matcherVars, scrubVars, taskVars>>

\* consecutiveFailures[signal] = 0, or the counter read plus one, is stored
\* and the deferred h.mu.Unlock() runs.
TrackerWrite(t) ==
    /\ hthread[t].pc = "write"
    /\ consecutiveFailures' =
          SetFailures(consecutiveFailures, hthread[t].signal,
                      IF hthread[t].op = "RecordFailure" THEN hthread[t].failures + 1 ELSE 0)
    /\ linear' = IF hthread[t].op = "RecordFailure"
                 THEN RecordFailureOn(linear, hthread[t].signal)
                 ELSE RecordSuccessOn(linear, hthread[t].signal)
    /\ rw' = [rw EXCEPT !.writer = 0]
    /\ hthread' = [hthread EXCEPT ![t].pc = "idle"]
    /\ UNCHANGED <<failuresSince, lastEvent, calls>>
    /\ UNCHANGED <<agentVars, obsVars, helperVars>>
    /\ UNCHANGED <<lazyVars, ginVars, probeVars, matcherVars, scrubVars, taskVars>>

\* h.mu.RLock() returns, in Status or in SignalStatuses, which then starts
\* its range over the keys of the map.
TrackerRLock(t) ==
    /\ hthread[t].pc = "rlock"
    /\ CanRLock(rw)
    /\ rw' = [rw EXCEPT !.readers = @ + 1]
    /\ hthread' = [hthread EXCEPT
          ![t].pc = IF hthread[t].op = "SignalStatuses" /\ ~hthread[t].inner
                    THEN "range" ELSE "load",
          ![t].todo = IF hthread[t].op = "SignalStatuses" /\ ~hthread[t].inner
                      THEN DOMAIN consecutiveFailures ELSE @]
    /\ UNCHANGED <<consecutiveFailures, failuresSince, lastEvent, linear, calls>>
    /\ UNCHANGED <<agentVars, obsVars, helperVars>>
    /\ UNCHANGED <<lazyVars, ginVars, probeVars, matcherVars, scrubVars, taskVars>>

\* Status reads the counter, compares it with the thresholds, and its
\* deferred h.mu.RUnlock() runs.
TrackerLoad(t) ==
    /\ hthread[t].pc = "load"
    /\ rw' = [rw EXCEPT !.readers = @ - 1]
    /\ hthread' = [hthread EXCEPT
          ![t].failures = Failures(consecutiveFailures, hthread[t].signal),
          ![t].seen = Failures(linear, hthread[t].signal),
          ![t].ret = StatusOf(Failures(consecutiveFailures, hthread[t].signal)),
          ![t].inner = FALSE,
          ![t].pc = IF hthread[t].inner THEN "range" ELSE "idle"]
    /\ UNCHANGED <<consecutiveFailures, failuresSince, lastEvent, linear, calls>>
    /\ UNCHANGED <<agentVars, obsVars, helperVars>>
    /\ UNCHANGED <<lazyVars, ginVars, probeVars, matcherVars, scrubVars, taskVars>>

\* SignalStatuses, holding the read lock: the range loop takes the next key
\* and calls h.Status(signal), or it is over and the deferred RUnlock runs.
TrackerRange(t) ==
    /\ hthread[t].pc = "range"
    /\ IF hthread[t].todo = {}
       THEN /\ rw' = [rw EXCEPT !.readers = @ - 1]
            /\ hthread' = [hthread EXCEPT ![t].pc = "idle"]
       ELSE /\ \E signal \in hthread[t].todo :
                  hthread' = [hthread EXCEPT ![t].todo = @ \ {signal},
                                             ![t].signal = signal,
                                             ![t].inner = TRUE,
                                             ![t].pc = "rlock"]
            /\ UNCHANGED rw
    /\ UNCHANGED <<consecutiveFailures, failuresSince, lastEvent, linear, calls>>
    /\ UNCHANGED <<agentVars, obsVars, helperVars>>
    /\ UNCHANGED <<lazyVars, ginVars, probeVars, matcherVars, scrubVars, taskVars>>

InitTracker ==
    /\ NewAgent(DefaultConfig)
    /\ ObsInit
    /\ HelperInit
    /\ LibInit
    /\ TaskIdle
    /\ ScrubIdle
    /\ MatcherIdle
    /\ TrackerInit

NextTracker ==
    \/ \E t \in Threads : TrackerCall(t)
    \/ \E t \in Threads : TrackerLock(t)
    \/ \E t \in Threads : TrackerWrite(t)
    \/ \E t \in Threads : TrackerRLock(t)
    \/ \E t \in Threads : TrackerLoad(t)
    \/ \E t \in Threads : TrackerRange(t)

SpecTracker == InitTracker /\ [][NextTracker]_vars

\* C28: RecordSuccess, RecordFailure and Status calls made concurrently are
\* linearizable. The map always holds the counters of a tracker that runs the
\* updates one after the other, each in one step at the moment it stores, so
\* no update is lost; a writer is alone in the tracker; and every Status read
\* the counter that tracker had at a moment inside the call, and returned the
\* status of that counter.
C28_RecordsAndStatusLinearizable ==
    /\ consecutiveFailures = linear
    /\ rw.writer # 0 => rw.readers = 0
    /\ \A t, u \in Threads :
          (t # u /\ hthread[t].pc = "write") => hthread[u].pc \notin {"write", "load", "range"}
    /\ \A t \in Threads :
          /\ hthread[t].pc = "write" => hthread[t].failures = Failures(linear, hthread[t].signal)
          /\ hthread[t].op \in {"Status", "SignalStatuses"} =>
                /\ hthread[t].failures = hthread[t].seen
                /\ hthread[t].ret = StatusOf(hthread[t].seen)

\* A RecordFailure on traces holds the lock between its read and its store
\* while a RecordFailure on traces of another goroutine waits in Lock, after
\* an earlier failure on traces was recorded.
C28_Witness ==
    \E t, u \in Threads :
        /\ t # u
        /\ hthread[t].op = "RecordFailure" /\ hthread[t].signal = "traces"
        /\ hthread[t].pc = "write" /\ hthread[t].failures = 1
        /\ hthread[u].op = "RecordFailure" /\ hthread[u].signal = "traces"
        /\ hthread[u].pc = "lock"

\* What goroutine t can do next inside the call it is in.
TrackerStep(t) ==
    TrackerLock(t) \/ TrackerWrite(t) \/ TrackerRLock(t) \/ TrackerLoad(t) \/ TrackerRange(t)

\* C29: SignalStatuses always returns when it runs concurrently with
\* RecordSuccess and RecordFailure: whenever a goroutine is inside
\* SignalStatuses, some goroutine that is inside a call of the tracker can
\* take its next step, so the reader that holds the read lock and takes it
\* again through Status and a writer that waits in Lock never block each
\* other for good.
C29_SignalStatusesNeverDeadlocks ==
    (\E t \in Threads : hthread[t].op = "SignalStatuses" /\ hthread[t].pc # "idle") =>
        \E t \in Threads : hthread[t].pc # "idle" /\ ENABLED TrackerStep(t)

\* C31: a helper metric call (RecordDuration, IncrementCounter, SetGauge)
\* that begins after Init has succeeded with metrics enabled and finds its
\* key in the instrument cache is served an instrument of the real meter
\* provider, never one that the no-op meter made before Init.
C31_HelperAfterInitUsesRealInstrument ==
    [][\A t \in Threads :
          (/\ initialized /\ running /\ IsEnabled
           /\ provider["metrics"] # Nil
           /\ hpc[t].pc = "idle"
           /\ hpc'[t].pc = "record") => hpc'[t].inst.prov # Nil]_vars

\* C32: over any sequence of MetricCollector.Start and Stop calls the stop
\* channel is closed at most once, so that no Stop panics on a closed
\* channel: Start, Stop, Start, Stop completes normally.
C32_StopChannelClosedOnce == collector.closed <= 1

\* C33: a running agent is initialized; the initialized flag is never
\* cleared; an initialized agent that is not running (Shutdown has cleared
\* running, or the agent is disabled) never becomes running again; and every
\* Init call made after a Shutdown that stopped the agent returns
\* ErrAlreadyInitialized.
C33_StoppedAgentStaysStopped ==
    /\ [](running => initialized)
    /\ [][initialized => initialized']_vars
    /\ [][(initialized /\ ~running) => ~running']_vars
    /\ [][(shutdownCalls > 0 /\ initialized /\ ~running /\ initCalls' # initCalls) =>
             initResult' = [val |-> ErrAlreadyInitialized, call |-> initCalls']]_vars

\* An enabled agent was initialized and shut down, and a second Init call
\* has returned ErrAlreadyInitialized on the stopped agent.
C33_Witness ==
    /\ config.Enabled
    /\ sdResult.val = "nil" /\ ~sdResult.noop
    /\ initialized /\ ~running
    /\ initCalls = 2
    /\ initResult = [val |-> ErrAlreadyInitialized, call |-> 2]

\* C34: Init calls made by several threads on an enabled agent with a
\* service name run one at a time under a.mu; the one call that returns nil
\* is the one that sets initialized; every call that starts on the
\* initialized agent returns ErrAlreadyInitialized and constructs nothing;
\* and a provider is constructed only by the call that holds a.mu, and for a
\* second time only after an Init call has failed.
C34_OneInitConstructs ==
    [][(config.Enabled /\ config.ServiceName # "") =>
          /\ initCalls' # initCalls => mu = "free"
          /\ (initResult' # initResult /\ initResult'.val = "nil") =>
                ~initialized /\ initialized'
          /\ (initialized /\ initCalls' # initCalls) =>
                /\ initResult' = [val |-> ErrAlreadyInitialized, call |-> initCalls']
                /\ provider' = provider /\ globalProvider' = globalProvider
          /\ \A s \in Signals :
                provider'[s] # provider[s] =>
                    /\ mu = "Init" /\ ~initialized
                    /\ provider[s] = Nil \/ initResult.val \notin {"none", "nil"}]_vars

\* The first of two Init calls constructed every provider and returned nil,
\* the second returned ErrAlreadyInitialized.
C34_Witness ==
    /\ config.Enabled /\ config.ServiceName # ""
    /\ \A s \in Signals : config.Signal[s] /\ provider[s] = 1 /\ globalProvider[s] = 1
    /\ initialized
    /\ initCalls = 2
    /\ initResult = [val |-> ErrAlreadyInitialized, call |-> 2]

\* ------------------------------------------- the agent and its collectors
\* Init and Shutdown of an enabled agent with metrics, the Collect
\* goroutines that Init launches, and the caller of Init cancelling the
\* context it passed (the fx lifecycle passes the context of its OnStart
\* hook).
InitAgentCollect ==
    /\ \E cfg \in {c \in Configs : c.Enabled /\ c.ServiceName = "svc" /\ c.Signal["metrics"]} :
          NewAgent(cfg)
    /\ ObsInit
    /\ HelperInit
    /\ LibInit
    /\ TaskIdle
    /\ RwIdle
    /\ ScrubIdle
    /\ MatcherIdle

NextAgentCollect ==
    \/ InitBegin
    \/ \E i \in 1..Len(SigOrder) : InitConstruct(i)
    \/ \E i \in 1..Len(SigOrder) : InitInstall(i)
    \/ InitCollectors
    \/ InitFinish
    \/ ShutdownBegin
    \/ ShutdownStopCollector
    \/ \E i \in 1..Len(SigOrder) : ShutdownProvider(i)
    \/ ShutdownEnd
    \/ CancelContext
    \/ \E c \in SubCollectors : CollectReturn(c)
    \/ \E c \in SubCollectors : CollectTick(c)

SpecAgentCollect == InitAgentCollect /\ [][NextAgentCollect]_vars

\* C35: while the agent reports IsRunning() true with metrics enabled and
\* Shutdown has not stopped the collector, every Collect goroutine that Init
\* launched is still running: none exits because the context that was passed
\* to Init is cancelled after Init has returned.
C35_CollectorsRunWhileAgentRuns ==
    (IsRunning /\ config.Signal["metrics"] /\ collector.running) =>
        \A c \in SubCollectors : tasks[c] = "running"

\* The place of a signal in the order of Shutdown.
SigIndex(s) == CHOOSE i \in 1..Len(SigOrder) : SigOrder[i] = s

NextHealthCheck ==
    \/ \E x \in TrackerSignals : RecordSuccess(x)
    \/ \E x \in TrackerSignals : RecordFailure(x)
    \/ HealthCheckBegin
    \/ HealthCheckReturn

SpecHealthCheck == InitHealth /\ [][NextHealthCheck]_vars

\* The worst status in a map of signal statuses, healthy for the empty map.
WorstStatus(signals) ==
    IF \E x \in DOMAIN signals : signals[x] = ExporterUnhealthy THEN ExporterUnhealthy
    ELSE IF \E x \in DOMAIN signals : signals[x] = ExporterDegraded THEN ExporterDegraded
    ELSE ExporterHealthy

\* C37: the Status field of every HealthStatus that HealthCheck returns for
\* an enabled agent is the string of the worst status in its Signals map
\* ("ok" when every signal is healthy or none is tracked), also when
\* RecordSuccess and RecordFailure run concurrently with the call.
C37_HealthStatusConsistent ==
    healthCall.ret.Enabled =>
        healthCall.ret.Status = StatusString(WorstStatus(healthCall.ret.Signals))

\* C38: a helper call whose instrument creation fails returns at once and
\* leaves the instrument caches, the creation counts and the recordings as
\* they were; the caches hold only instruments that a factory call did
\* create; and a call finds a key in the cache exactly when such an
\* instrument was stored for it, so that after a failure the next call with
\* the key invokes the factory again.
C38_FailedCreationNotCached ==
    /\ [][\A t \in Threads :
             (hpc[t].pc = "create" /\ hpc'[t] = HDone) =>
                 /\ icache' = icache /\ created' = created /\ recorded' = recorded
                 /\ panicked' = panicked]_vars
    /\ [](\A k \in Kinds, key \in Keys :
             icache[k][key] # NoInst => icache[k][key].serial \in 1..created[k][key])
    /\ [][\A t \in Threads :
             (hpc[t].pc = "idle" /\ hpc'[t].pc \in {"create", "record"}) =>
                 LET cached == icache[hpc'[t].kind][<<hpc'[t].comp, ":", hpc'[t].name>>]
                 IN  /\ hpc'[t].pc = "create" <=> cached = NoInst
                     /\ hpc'[t].pc = "record" => hpc'[t].inst = cached]_vars

\* A goroutine got the real meter "default" and has returned without an
\* instrument having been created or cached for any key: its creation
\* failed.  Another goroutine, finding the cache empty, is about to invoke
\* the factory.
C38_Witness ==
    \E t, u \in Threads :
        /\ t # u
        /\ hpc[t] = HDone
        /\ meters["default"].kind = "real"
        /\ \A k \in Kinds, key \in Keys : created[k][key] = 0 /\ icache[k][key] = NoInst
        /\ hpc[u].pc = "create" /\ hpc[u].comp = "default"

\* RouteMatcher.IsEmpty
IsEmpty(m) ==
    IF m.nil THEN TRUE
    ELSE Cardinality(m.exactPaths) = 0 /\ Len(m.prefixPaths) = 0 /\ Len(m.patterns) = 0

\* A configuration with at least one entry, all of whose entries are "".
OnlyEmptyStrings(cfg) ==
    /\ Len(cfg.ExactPaths) + Len(cfg.PrefixPaths) + Len(cfg.Patterns) > 0
    /\ \A str \in Elems(cfg.ExactPaths) \cup Elems(cfg.PrefixPaths) \cup Elems(cfg.Patterns) :
          str = <<>>

\* C39: empty-string entries of the exact-path, prefix and pattern lists are
\* dropped when the matcher is constructed: a matcher built only from empty
\* strings is empty and excludes no path, the empty path included.
C39_EmptyEntriesInert ==
    (~routeMatcher.nil /\ OnlyEmptyStrings(routeMatcher.cfg)) =>
        /\ IsEmpty(routeMatcher)
        /\ excluded # "yes"

\* ------------------------------------------- NewAgent and its options
\* Options given to one NewAgent call.
MaxOptions == 2

Exclusions(exact, prefix, patterns) ==
    [ExactPaths |-> exact, PrefixPaths |-> prefix, Patterns |-> patterns]
\* The route exclusions the environment and the options name: none, the
\* exact path "/a", the prefix "/a/".
OptionExclusions ==
    {Exclusions(<<>>, <<>>, <<>>), Exclusions(<< <<"/", "a">> >>, <<>>, <<>>),
     Exclusions(<<>>, << <<"/", "a", "/">> >>, <<>>)}

\* The Config objects at hand while the options run, as far as route
\* exclusions go: loaded is the RouteExclusion of the object that
\* LoadConfigFromEnv returned, current that of the object a.config points
\* to, and same tells whether a.config still points to the loaded object.
Loaded(rx) == [loaded |-> rx, current |-> rx, same |-> TRUE]

\* WithConfig(cfg): a.config = cfg, another object.
WithConfig(st, rx) == [loaded |-> st.loaded, current |-> rx, same |-> FALSE]

\* WithRouteExclusions(cfg): a.config.RouteExclusion = cfg, written into the
\* object a.config points to.
WithRouteExclusions(st, rx) ==
    [loaded |-> IF st.same THEN rx ELSE st.loaded, current |-> rx, same |-> st.same]

Options == [opt : {"WithConfig", "WithRouteExclusions"}, rx : OptionExclusions]
OptionLists == UNION {[1..n -> Options] : n \in 0..MaxOptions}

\* for _, opt := range opts { opt(a) }
RECURSIVE ApplyOptions(_, _)
ApplyOptions(st, opts) ==
    IF opts = <<>>
    THEN st
    ELSE ApplyOptions(IF Head(opts).opt = "WithConfig"
                      THEN WithConfig(st, Head(opts).rx)
                      ELSE WithRouteExclusions(st, Head(opts).rx),
                      Tail(opts))

\* NewAgent(opts...): the configuration is loaded from the environment, the
\* options run, and the matcher is built from cfg.RouteExclusion, cfg being
\* the loaded object.  Config() returns a.config.  A request path is then
\* at hand to ask the matcher about.
CallNewAgent ==
    /\ excluded = "idle"
    /\ \E env \in OptionExclusions, opts \in OptionLists :
          LET st == ApplyOptions(Loaded(env), opts)
          IN  /\ config' = [Enabled |-> DefaultConfig.Enabled,
                            ServiceName |-> DefaultConfig.ServiceName,
                            Signal |-> DefaultConfig.Signal,
                            RouteExclusion |-> st.current]
              /\ routeMatcher' = NewRouteMatcher(st.loaded)
    /\ requestPath' \in Paths
    /\ excluded' = "unasked"
    /\ UNCHANGED <<mu, initialized, running, provider, globalProvider, helperGlobal,
                   tracers, meters, collector, initPc, sdPc, sdBlocked>>
    /\ UNCHANGED <<obsVars, helperVars>>
    /\ UNCHANGED <<lazyVars, ginVars, healthVars, probeVars, scrubVars, taskVars, rwVars>>

InitOptions ==
    /\ NewAgent(DefaultConfig)
    /\ ObsInit
    /\ HelperInit
    /\ LibInit
    /\ TaskIdle
    /\ RwIdle
    /\ ScrubIdle
    /\ MatcherIdle

NextOptions ==
    \/ CallNewAgent
    \/ CallShouldExclude

SpecOptions == InitOptions /\ [][NextOptions]_vars

\* C40: after NewAgent(opts...) the agent's RouteMatcher excludes a path
\* exactly when a matcher built from the RouteExclusion section of the
\* configuration that Config() returns excludes it, whichever of
\* WithRouteExclusions and WithConfig were given, in any order.
C40_MatcherFollowsConfig ==
    excluded \in {"yes", "no"} =>
        (excluded = "yes" <=>
            ShouldExclude(NewRouteMatcher(config.RouteExclusion), requestPath))

====
